---- MODULE Spec2Model ----
(***************************************************************************)
(* Model of the LogicMonitor core-tool extension (src/src/extension.ts):   *)
(* the stored selection, the navigation tree, makeApiRequest and the       *)
(* remote script execution protocol (runActiveScript / pollDebugSession).  *)
(*                                                                         *)
(* JavaScript strings whose characters the code inspects are sequences of  *)
(* one-character strings.  JSON values are records with a fixed set of     *)
(* fields; a field the JSON value lacks holds a sentinel.                  *)
(***************************************************************************)
EXTENDS Integers, Sequences, FiniteSets, TLC

(***************************************************************************)
(* Bounds of the model.                                                    *)
(***************************************************************************)
\* largest number of tokens a poll output is built from
MaxTokens == 2

(***************************************************************************)
(* JavaScript values.                                                      *)
(***************************************************************************)
\* an undefined string-valued value
Undefined == "undefined"
\* an undefined number-valued value
NoId == 0 - 1
\* JavaScript truthiness of a number | undefined
TruthyNum(n) == n # NoId /\ n # 0
\* JavaScript truthiness of a string | undefined (no modelled name is "")
TruthyStr(s) == s # Undefined

(***************************************************************************)
(* Character strings.                                                      *)
(***************************************************************************)
RETURNS == <<"r", "e", "t", "u", "r", "n", "s">>
CANCELLED == <<"c", "a", "n", "c", "e", "l", "l", "e", "d">>
NULLTXT == <<"n", "u", "l", "l">>
NL == "\n"
CR == "\r"
Digits == {"0", "1", "2", "3", "4", "5", "6", "7", "8", "9"}
\* the characters the regular expression class \s matches
Whitespace == {" ", "\t", NL, CR}

\* String.prototype.includes
Includes(s, sub) ==
    \E k \in 0..(Len(s) - Len(sub)) : SubSeq(s, k + 1, k + Len(sub)) = sub

\* String.prototype.startsWith
StartsWith(s, p) == Len(s) >= Len(p) /\ SubSeq(s, 1, Len(p)) = p

\* index of the first newline of s, or Len(s) + 1 when there is none
FirstNL(s) ==
    IF \E k \in 1..Len(s) : s[k] = NL
    THEN CHOOSE k \in 1..Len(s) : s[k] = NL /\ \A j \in 1..(k - 1) : s[j] # NL
    ELSE Len(s) + 1

\* output.split('\n')[0]
FirstLine(s) == SubSeq(s, 1, FirstNL(s) - 1)

\* output.split('\n').slice(1).join('\n')
RemainingOutput(s) == SubSeq(s, FirstNL(s) + 1, Len(s))

\* ReplaceNL with the first newline replaced only
ReplaceNL_First(s) ==
    [k \in 1..Len(s) |-> IF k = FirstNL(s) THEN CR ELSE s[k]]

\* remainingOutput.replace(/\n/g, '\r')
ReplaceNL(s) == [k \in 1..Len(s) |-> IF s[k] = NL THEN CR ELSE s[k]]

\* the longest run of characters of class cls that starts at index p of s
RunEnd(s, p, cls) ==
    CHOOSE e \in (p - 1)..Len(s) :
        /\ \A j \in p..e : s[j] \in cls
        /\ (e = Len(s) \/ s[e + 1] \notin cls)

\* firstLine.match(/^returns\s+(-?\d+|null)/): the captured group, or
\* NULLTXT when there is no match (the template prints null as "null")
ReturnValue(line) ==
    LET ws == RunEnd(line, Len(RETURNS) + 1, Whitespace)
        p == ws + 1
        neg == p <= Len(line) /\ line[p] = "-"
        d == IF neg THEN p + 1 ELSE p
        de == RunEnd(line, d, Digits)
    IN  IF ~StartsWith(line, RETURNS) \/ ws < Len(RETURNS) + 1 THEN NULLTXT
        ELSE IF de >= d THEN SubSeq(line, p, de)
        ELSE IF p + Len(NULLTXT) - 1 <= Len(line)
                /\ SubSeq(line, p, p + Len(NULLTXT) - 1) = NULLTXT
        THEN NULLTXT
        ELSE NULLTXT

(***************************************************************************)
(* JSON bodies of the remote API.                                          *)
(***************************************************************************)
\* the value of a field the JSON object lacks
Absent == "<absent>"
AbsentOutput == [type |-> "absent", chars |-> <<>>]
NonStringOutput == [type |-> "other", chars |-> <<>>]
StringOutput(s) == [type |-> "string", chars |-> s]

\* the JSON value null
NullBody == [isNull |-> TRUE, status |-> Absent, output |-> AbsentOutput,
             sessionId |-> Absent]
\* a JSON object with the given fields
Body(st, out, sid) == [isNull |-> FALSE, status |-> st, output |-> out,
                       sessionId |-> sid]

\* the pieces poll outputs are built from
Tokens == {RETURNS, CANCELLED, <<" ", "0">>, <<NL>>}

RECURSIVE Concat(_)
Concat(ts) == IF ts = <<>> THEN <<>> ELSE Head(ts) \o Concat(Tail(ts))

Outputs ==
    {Concat(ts) : ts \in UNION {[1..n -> Tokens] : n \in 0..MaxTokens}}

PollStatuses == {Absent, "completed", "cancelled", "running"}

\* the bodies a status request can be answered with
PollBodies ==
    {NullBody} \cup
    {Body(st, out, Absent) :
        st \in PollStatuses,
        out \in {AbsentOutput, NonStringOutput} \cup
                {StringOutput(s) : s \in Outputs}}

\* the bodies a submit request can be answered with
SessionIds == {"s1"}
EmptyString == ""
SubmitBodies ==
    {NullBody} \cup
    {Body(Absent, AbsentOutput, sid) :
        sid \in SessionIds \cup {Absent, EmptyString}}

\* the body of a response with a non-success status
ErrorBody == Body(Absent, AbsentOutput, Absent)

\* what fetch() and response.json() can produce
NetworkError == [kind |-> "network", ok |-> FALSE, body |-> NullBody]
Unparsable(ok) == [kind |-> "unparsable", ok |-> ok, body |-> NullBody]
Parsed(ok, b) == [kind |-> "parsed", ok |-> ok, body |-> b]
NoHttp == [kind |-> "none", ok |-> FALSE, body |-> NullBody]

FailedHttp ==
    {NetworkError, Unparsable(TRUE), Unparsable(FALSE),
     Parsed(FALSE, ErrorBody), Parsed(FALSE, NullBody)}
PollHttp == FailedHttp \cup {Parsed(TRUE, b) : b \in PollBodies}
SubmitHttp == FailedHttp \cup {Parsed(TRUE, b) : b \in SubmitBodies}

(***************************************************************************)
(* Credentials file, portals and the remote inventory.                     *)
(***************************************************************************)
\* interface Portal
Portal(id, key, company) ==
    [API_ACCESS_ID |-> id, API_ACCESS_KEY |-> key, COMPANY_NAME |-> company]
NoPortal == Portal(Undefined, Undefined, Undefined)

\* creds.json: whether it can be read and parsed, and its entries as
\* Object.entries returns them, <<label, Portal>> pairs with distinct labels
CredsFile(readable, entries) == [readable |-> readable, entries |-> entries]
Unreadable == CredsFile(FALSE, {})
MatchingCreds ==
    CredsFile(TRUE, {<<"portal1", Portal("id1", "key1", "portal1")>>})
\* the example of README.md
ReadmeCreds ==
    CredsFile(TRUE, {<<"prod", Portal("id1", "key1", "portal1")>>,
                     <<"sandbox", Portal("id2", "key2", "portal2")>>})
\* a label that is another entry's COMPANY_NAME
CrossedCreds ==
    CredsFile(TRUE, {<<"prod", Portal("id1", "key1", "portal1")>>,
                     <<"portal1", Portal("id2", "key2", "portal2")>>})
CredFiles == {Unreadable, MatchingCreds, ReadmeCreds, CrossedCreds}

CollectorIds == {1, 2}
DeviceIds == {7, 8}
CollectorDescription(c) == IF c = 1 THEN "collector-one" ELSE "collector-two"
DeviceDisplayName(d) == IF d = 7 THEN "Device Seven" ELSE "Device Eight"
DeviceHostname(d) == IF d = 7 THEN "host7" ELSE "host8"

(***************************************************************************)
(* Script documents.                                                       *)
(***************************************************************************)
Extensions == {"groovy", "ps1", "txt"}
Languages == {"groovy", "powershell", "plaintext"}
NoDocument == [ext |-> Undefined, languageId |-> Undefined]
Documents == [ext : Extensions, languageId : Languages]

(***************************************************************************)
(* Output channel lines, notifications and requests.                       *)
(***************************************************************************)
Line(kind) == [kind |-> kind, text |-> <<>>]
TextLine(kind, text) == [kind |-> kind, text |-> text]
Message(level, kind) == [level |-> level, kind |-> kind]

NoRequest ==
    [verb |-> Undefined, resource |-> Undefined, session |-> Undefined,
     collectorId |-> NoId, marker |-> Undefined, hostId |-> NoId,
     moduleId |-> NoId, hasBody |-> FALSE, portal |-> NoPortal]
\* a collector node of the navigation tree and the portal details its
\* devices were fetched with
Node(portal, c) == [portal |-> portal, collectorId |-> c]
NoNode == Node(NoPortal, NoId)

\* POST /debug?collectorId=<c> with body {cmdline: <marker> hostId=<d>\n...}
SubmitRequest(portal, c, marker, d) ==
    [verb |-> "POST", resource |-> "/debug", session |-> Undefined,
     collectorId |-> c, marker |-> marker, hostId |-> d,
     moduleId |-> NoId, hasBody |-> TRUE, portal |-> portal]
\* GET /debug/<sessionId>?collectorId=<c>&_=<now>
StatusRequest(portal, c, sid) ==
    [verb |-> "GET", resource |-> "/debug/<sessionId>", session |-> sid,
     collectorId |-> c, marker |-> Undefined, hostId |-> NoId,
     moduleId |-> NoId, hasBody |-> FALSE, portal |-> portal]

(***************************************************************************)
(* Program constants.                                                      *)
(***************************************************************************)
\* pollDebugSession: number of poll attempts
maxAttempts == 40
\* pollDebugSession: milliseconds between attempts
delay == 3000

(***************************************************************************)
(* State.                                                                  *)
(***************************************************************************)
VARIABLES
    \* the file the credentials path points to
    credsFile,
    \* workspaceState
    credentialsPath, debugEnabled, activePortal,
    activeCollectorId, activeCollectorDescription,
    activeDeviceId, activeDeviceDisplayName, activeDeviceHostname,
    currentPortalDetails,
    \* activate(): closure variable
    lastActiveScriptEditorUri,
    \* NavigationProvider: the collector node whose devices are listed
    deviceNode,
    \* the portal details the selected device was listed with
    selectedFrom,
    \* pullDataSource: position, and the requests it has issued
    pullPc, nPull,
    \* runActiveScript / pollDebugSession / makeApiRequest: position and locals
    pc, runDebug, portalDetails, collectorId, sessionId, i, pollDebug, apiDebug,
    \* what the invocation has done: lines appended to the output channel,
    \* notifications shown, output channel revealed, progress reports,
    \* requests issued, time slept, the last request and its response
    channel, messages, shown, reports, nPost, nGet, elapsed,
    lastRequest, lastHttp,
    \* how the last call of makeApiRequest ended
    lastResult,
    \* request signing: Date.now(), the HMAC-SHA256 digests computed so far,
    \* the argument of the last update(), the last call of fetch, and the
    \* arguments and result of every call of generateLMv1AuthHeader
    now, hmacSha256, signedData, fetchCall, authHeaders,
    \* a paginated fetcher: position, the function called, its locals
    \* offset and all<Items>, the page requests issued, the responses
    \* received and the value returned
    fetchPc, fetcher, offset, allItems, pageRequests, pages, fetched,
    \* overlapping invocations of runActiveScript: the number of the
    \* invocation whose continuation runs (its locals are the variables
    \* above) and the locals of the other invocation
    focus, parked,
    \* runActiveScript split at its await of getCredentials: position, the
    \* locals read before the await, the query parameters passed to
    \* makeApiRequest and the number of submit requests issued
    submitPc, snapshot, queryParams, nSubmit,
    \* the pull commands: whether a workspace folder is open, the
    \* directories and the files under the workspace root, the files the
    \* pull has written, in order, the locals of the handler, and the
    \* pulls that have been answered with the files each of them left
    workspaceFolders, dirs, files, writes, pullItem, pulled,
    \* the selection commands suspended at an await of workspaceState.update,
    \* each with its arguments and the number of its writes done, and the
    \* arguments of the calls of setActiveDevice made so far
    selecting, calls,
    \* the navigation tree: the group and collector nodes listed so far, each
    \* with the portal under whose node it was listed, workspaceState
    \* 'logicmonitor.groupedCollectors', and the last expansion of a group
    \* or collector node with what it listed or whose credentials it used
    tree, groupedCollectors, expansion

selectionVars ==
    <<activePortal, activeCollectorId, activeCollectorDescription,
      activeDeviceId, activeDeviceDisplayName, activeDeviceHostname,
      selectedFrom>>
pullVars == <<pullPc, nPull>>
signVars == <<now, hmacSha256, signedData, fetchCall, authHeaders>>
pageVars ==
    <<fetchPc, fetcher, offset, allItems, pageRequests, pages, fetched>>
concVars == <<focus, parked>>
submitVars == <<submitPc, snapshot, queryParams, nSubmit>>
fileVars == <<workspaceFolders, dirs, files, writes, pullItem, pulled>>
selectVars == <<selecting, calls>>
treeVars == <<tree, groupedCollectors, expansion>>
otherVars ==
    <<signVars, pageVars, concVars, submitVars, fileVars, selectVars,
      treeVars>>
envVars == <<credsFile, credentialsPath, currentPortalDetails, deviceNode>>
runVars ==
    <<pc, runDebug, portalDetails, collectorId, sessionId, i, pollDebug,
      apiDebug>>
obsVars ==
    <<channel, messages, shown, reports, nPost, nGet, elapsed, lastRequest,
      lastHttp, lastResult>>
vars ==
    <<selectionVars, envVars, debugEnabled, lastActiveScriptEditorUri,
      runVars, obsVars, pullVars, otherVars>>

(***************************************************************************)
(* getCredentials and the lookup of the active portal.                     *)
(***************************************************************************)
\* getCredentials: the entries, or undefined with an error message
getCredentials(path, file) ==
    IF ~TruthyStr(path)
    THEN [defined |-> FALSE, entries |-> {},
          msgs |-> {Message("error", "credsPathNotSet")}]
    ELSE IF ~file.readable
    THEN [defined |-> FALSE, entries |-> {},
          msgs |-> {Message("error", "credsUnreadable")}]
    ELSE [defined |-> TRUE, entries |-> file.entries, msgs |-> {}]

\* (await getCredentials(context))?.find(([name, _]) => name === n)?.[1]
FindPortal(creds, n) ==
    IF creds.defined /\ \E e \in creds.entries : e[1] = n
    THEN (CHOOSE e \in creds.entries : e[1] = n)[2]
    ELSE NoPortal

(***************************************************************************)
(* makeApiRequest, split at its await of fetch().                          *)
(***************************************************************************)
\* up to the call of fetch: the lines logged in debug mode
ApiBeginLines(dbg) == IF dbg THEN {Line("apiRequest")} ELSE {}

\* ApiEnd without the test of response.ok
ApiEnd_IgnoresStatus(http, dbg) ==
    LET parsed == http.kind = "parsed"
        threw == ~parsed
    IN  [threw |-> threw,
         value |-> IF threw THEN NullBody ELSE http.body,
         chan |-> IF dbg /\ parsed THEN {Line("apiResponse")} ELSE {},
         msgs |-> IF threw THEN {Message("error", "apiRequestFailed")}
                  ELSE {}]

\* from the resolution of fetch: the value returned or the exception,
\* the lines logged and the error message shown
ApiEnd(http, dbg) ==
    LET parsed == http.kind = "parsed"
        threw == ~parsed \/ ~http.ok
    IN  [threw |-> threw,
         value |-> IF threw THEN NullBody ELSE http.body,
         chan |-> IF dbg /\ parsed THEN {Line("apiResponse")} ELSE {},
         msgs |-> IF threw THEN {Message("error", "apiRequestFailed")}
                  ELSE {}]

\* what the caller of makeApiRequest gets
Completion(r) == [threw |-> r.threw, value |-> r.value]
NoResult == [threw |-> FALSE, value |-> NullBody]

(***************************************************************************)
(* The parts of the state an operation that is not modelled in a           *)
(* specification leaves at their initial values.                           *)
(***************************************************************************)
\* no call of fetch yet
NoFetch ==
    [method |-> <<>>, host |-> Undefined, path |-> <<>>,
     authorization |-> <<>>, hasBody |-> FALSE, body |-> <<>>]
SignIdle ==
    /\ now = 9
    /\ hmacSha256 = <<>>
    /\ signedData = <<>>
    /\ fetchCall = NoFetch
    /\ authHeaders = {}
PagesIdle ==
    /\ fetchPc = "idle"
    /\ fetcher = Undefined
    /\ offset = 0
    /\ allItems = <<>>
    /\ pageRequests = <<>>
    /\ pages = <<>>
    /\ fetched = <<>>
\* the locals of an invocation of runActiveScript and what it has done
Locals ==
    [pc |-> pc, runDebug |-> runDebug, portalDetails |-> portalDetails,
     collectorId |-> collectorId, sessionId |-> sessionId, i |-> i,
     pollDebug |-> pollDebug, apiDebug |-> apiDebug, reports |-> reports,
     nPost |-> nPost, nGet |-> nGet, elapsed |-> elapsed,
     lastRequest |-> lastRequest, lastHttp |-> lastHttp,
     lastResult |-> lastResult]
\* the locals of an invocation that has not been triggered
NoLocals ==
    [pc |-> "idle", runDebug |-> FALSE, portalDetails |-> NoPortal,
     collectorId |-> NoId, sessionId |-> Undefined, i |-> 0,
     pollDebug |-> FALSE, apiDebug |-> FALSE, reports |-> 0,
     nPost |-> 0, nGet |-> 0, elapsed |-> 0,
     lastRequest |-> NoRequest, lastHttp |-> NoHttp,
     lastResult |-> NoResult]
ConcIdle == focus = 1 /\ parked = NoLocals
\* the locals of runActiveScript before they are assigned
NoSnapshot ==
    [debugEnabled |-> FALSE, document |-> NoDocument, scriptContent |-> <<>>,
     scriptType |-> Undefined, activePortalName |-> Undefined,
     activeDeviceId |-> NoId, activeCollectorId |-> NoId]
SubmitIdle ==
    /\ submitPc = "idle"
    /\ snapshot = NoSnapshot
    /\ queryParams = <<>>
    /\ nSubmit = 0
\* the locals of a pull command before they are assigned
NoPull ==
    [command |-> Undefined, name |-> Undefined, label |-> Undefined,
     id |-> NoId, portal |-> Undefined, debug |-> FALSE]
\* an empty workspace folder
FilesIdle ==
    /\ workspaceFolders = TRUE
    /\ dirs = {}
    /\ files = <<>>
    /\ writes = <<>>
    /\ pullItem = NoPull
    /\ pulled = <<>>
\* no selection command is in progress
Slots == {1, 2}
SelectionArguments(portalName, c, description, d, displayName, hostname) ==
    [portalName |-> portalName, collectorId |-> c,
     collectorDescription |-> description, deviceId |-> d,
     deviceDisplayName |-> displayName, deviceHostname |-> hostname]
NoCommand ==
    [command |-> Undefined, k |-> 0, from |-> NoPortal,
     args |-> SelectionArguments(Undefined, NoId, Undefined, NoId,
                                 Undefined, Undefined)]
NoneSelecting == selecting = [s \in Slots |-> NoCommand]
SelectIdle == NoneSelecting /\ calls = {}
\* nothing of the navigation tree has been expanded
TreeNode(kind, id, portal) == [kind |-> kind, id |-> id, portal |-> portal]
NoExpansion ==
    [node |-> TreeNode(Undefined, NoId, NoPortal), collectors |-> {},
     portal |-> NoPortal]
\* { groups, groupedCollectors, ungroupedCollectors }, or nothing stored
StoredData(present, groups, grouped, ungrouped) ==
    [present |-> present, groups |-> groups, grouped |-> grouped,
     ungrouped |-> ungrouped]
NoStoredData == StoredData(FALSE, {}, {}, {})
TreeIdle ==
    tree = {} /\ groupedCollectors = NoStoredData /\ expansion = NoExpansion
OtherIdle ==
    /\ SignIdle /\ PagesIdle /\ ConcIdle /\ SubmitIdle /\ FilesIdle
    /\ SelectIdle /\ TreeIdle

(***************************************************************************)
(* runActiveScript.                                                        *)
(***************************************************************************)
ScriptLanguages == {"groovy", "powershell"}

\* the document to run and the new lastActiveScriptEditorUri; opened is
\* the language of the document at lastActiveScriptEditorUri, or "throws"
\* when openTextDocument fails; editor is vscode.window.activeTextEditor
ResolveDocument(lastUri, opened, editor) ==
    LET first == IF TruthyStr(lastUri) /\ opened # "throws"
                 THEN [ext |-> lastUri, languageId |-> opened]
                 ELSE NoDocument
        uri1 == IF TruthyStr(lastUri) /\ opened = "throws"
                THEN Undefined ELSE lastUri
        fallback == first = NoDocument /\ editor # NoDocument
                    /\ editor.languageId \in ScriptLanguages
    IN  [document |-> IF fallback THEN editor ELSE first,
         lastUri |-> IF fallback THEN editor.ext ELSE uri1]

\* the execution-mode marker, or Undefined for an unsupported document
ScriptType(document) ==
    IF document.ext = "groovy" \/ document.languageId = "groovy"
    THEN "!groovy"
    ELSE IF document.ext = "ps1" \/ document.languageId = "powershell"
    THEN "!posh"
    ELSE Undefined

\* Precondition without the test of the selection
Precondition_NoSelection(document, portal) ==
    IF document = NoDocument THEN "noEditor"
    ELSE IF ScriptType(document) = Undefined THEN "unsupported"
    ELSE IF portal = NoPortal THEN "portalNotFound"
    ELSE "none"

\* the local precondition that fails, or "none"
Precondition(document, portal) ==
    IF document = NoDocument THEN "noEditor"
    ELSE IF ScriptType(document) = Undefined THEN "unsupported"
    ELSE IF ~TruthyStr(activePortal) \/ ~TruthyNum(activeDeviceId)
            \/ ~TruthyNum(activeCollectorId) THEN "noSelection"
    ELSE IF portal = NoPortal THEN "portalNotFound"
    ELSE "none"

PreconditionMessage(reason) ==
    IF reason \in {"noEditor", "unsupported"}
    THEN Message("warning", reason) ELSE Message("error", reason)

\* the command handler up to its await of the submit request
RunActiveScript(opened, editor) ==
    /\ pc = "idle" /\ pullPc = "idle"
    /\ LET res == ResolveDocument(lastActiveScriptEditorUri, opened, editor)
           creds == getCredentials(credentialsPath, credsFile)
           portal == FindPortal(creds, activePortal)
           reason == Precondition(res.document, portal)
       IN  /\ lastActiveScriptEditorUri' = res.lastUri
           /\ runDebug' = debugEnabled
           /\ IF reason # "none"
              THEN /\ pc' = "aborted"
                   /\ messages' = messages \cup {PreconditionMessage(reason)}
                         \cup (IF reason = "portalNotFound"
                               THEN creds.msgs ELSE {})
                   /\ UNCHANGED <<portalDetails, collectorId, apiDebug,
                                  channel, shown, nPost, lastRequest>>
              ELSE /\ pc' = "awaitSubmit"
                   /\ portalDetails' = portal
                   /\ collectorId' = activeCollectorId
                   /\ apiDebug' = debugEnabled
                   /\ channel' = channel
                         \cup (IF debugEnabled
                               THEN {Line("debugApiCall")} ELSE {})
                         \cup ApiBeginLines(debugEnabled)
                   /\ shown' = (shown \/ debugEnabled)
                   /\ nPost' = nPost + 1
                   /\ lastRequest' =
                         SubmitRequest(portal, activeCollectorId,
                                       ScriptType(res.document),
                                       activeDeviceId)
                   /\ UNCHANGED messages
    /\ UNCHANGED <<selectionVars, envVars, pullVars, otherVars, debugEnabled, sessionId,
                   i, pollDebug, reports, nGet, elapsed, lastHttp,
                   lastResult>>

\* TruthySession without the test
TruthySession_Any(sid) == TRUE

\* JavaScript truthiness of apiResponse.sessionId
TruthySession(sid) == sid # Absent /\ sid # EmptyString

\* the rest of the handler, from the resolution of the submit request
SubmitResponse(http) ==
    /\ pc = "awaitSubmit"
    /\ LET r == ApiEnd(http, apiDebug)
           \* apiResponse.sessionId of a null response is a TypeError
           caught == r.threw \/ r.value.isNull
           started == ~caught /\ TruthySession(r.value.sessionId)
       IN  /\ lastHttp' = http
           /\ lastResult' = Completion(r)
           /\ channel' = channel \cup r.chan
                 \cup (IF ~r.threw /\ runDebug
                       THEN {Line("debugApiResponse")} ELSE {})
                 \cup (IF caught THEN {Line("debugApiError")} ELSE {})
           /\ messages' = messages \cup r.msgs
                 \cup (IF caught
                       THEN {Message("error", "debugApiFailed")} ELSE {})
                 \cup (IF ~caught /\ ~started
                       THEN {Message("error", "noSessionId")} ELSE {})
           /\ IF started
              THEN \* withProgress: pollDebugSession runs to its first await
                   /\ pc' = "delay"
                   /\ sessionId' = r.value.sessionId
                   /\ pollDebug' = debugEnabled
                   /\ i' = 0
                   /\ reports' = reports + 1
              ELSE /\ pc' = "errored"
                   /\ UNCHANGED <<sessionId, pollDebug, i, reports>>
           /\ shown' = TRUE
    /\ UNCHANGED <<selectionVars, envVars, pullVars, otherVars, debugEnabled,
                   lastActiveScriptEditorUri, runDebug, portalDetails,
                   collectorId, apiDebug, nPost, nGet, elapsed, lastRequest>>

(***************************************************************************)
(* pollDebugSession.                                                       *)
(***************************************************************************)
\* response.output && typeof response.output === 'string'
IsText(output) == output.type = "string" /\ output.chars # <<>>

\* PollClass with the test for the return-value marker placed before the
\* test for the cancellation marker
PollClass_ReturnsFirst(response) ==
    IF ~response.isNull /\ response.status = "completed"
    THEN "completed"
    ELSE IF ~response.isNull /\ response.status = "cancelled"
    THEN "cancelledStatus"
    ELSE IF ~response.isNull /\ IsText(response.output)
            /\ StartsWith(response.output.chars, RETURNS)
    THEN "returns"
    ELSE IF ~response.isNull /\ IsText(response.output)
            /\ Includes(response.output.chars, CANCELLED)
    THEN "cancelledOutput"
    ELSE "continue"

\* the branch of the if / else-if chain a poll response takes
PollClass(response) ==
    IF ~response.isNull /\ response.status = "completed"
    THEN "completed"
    ELSE IF ~response.isNull /\ response.status = "cancelled"
    THEN "cancelledStatus"
    ELSE IF ~response.isNull /\ IsText(response.output)
            /\ Includes(response.output.chars, CANCELLED)
    THEN "cancelledOutput"
    ELSE IF ~response.isNull /\ IsText(response.output)
            /\ StartsWith(response.output.chars, RETURNS)
    THEN "returns"
    ELSE "continue"

\* the notification each terminal branch shows
PollMessages(class) ==
    IF class = "completed" THEN {Message("info", "completed")}
    ELSE IF class = "cancelledStatus"
    THEN {Message("error", "cancelledByCollector")}
    ELSE IF class = "cancelledOutput"
    THEN {Message("error", "outputIndicatesCancellation")}
    ELSE IF class = "returns"
    THEN {Message("info", "completedWithOutput")}
    ELSE {}

\* the lines each branch appends to the output channel
PollLines(class, response) ==
    IF class = "returns"
    THEN {TextLine("returnValue",
                   ReturnValue(FirstLine(response.output.chars))),
          TextLine("scriptOutput",
                   ReplaceNL(RemainingOutput(response.output.chars)))}
    ELSE {}

\* PollOutcome with an output that carries a return value counted as a
\* cancellation
PollOutcome_ReturnsCancelled(class) ==
    IF class = "completed" THEN "completed" ELSE "cancelled"

\* PollOutcome with every terminal branch counted as a success
PollOutcome_Success(class) == "completed"

\* the position pollDebugSession returns at for a terminal branch
PollOutcome(class) ==
    IF class \in {"completed", "returns"} THEN "completed" ELSE "cancelled"

\* the warning shown after the loop
TimeoutMessages(dbg) ==
    IF dbg THEN {Message("warning", "timedOut")} ELSE {}

\* try / catch around the status request: an exception is logged in
\* debug mode and the loop goes on
PollBranch(r) == IF r.threw THEN "continue" ELSE PollClass(r.value)

\* PollDebugLines with the error logged whatever the debug flag
PollDebugLines_Always(dbg, threw) ==
    IF threw THEN {Line("pollError")}
    ELSE IF dbg THEN {Line("pollResponse")}
    ELSE {}

\* the lines the attempt logs in debug mode
PollDebugLines(dbg, threw) ==
    IF ~dbg THEN {}
    ELSE IF threw THEN {Line("pollError")}
    ELSE {Line("pollResponse")}

\* LoopContinues with an inclusive bound
LoopContinues_Inclusive(n) == n <= maxAttempts

\* the condition of the for loop
LoopContinues(n) == n < maxAttempts

\* PollTimer with the status request built from the active selection
PollTimer_ActiveSelection ==
    /\ pc = "delay"
    /\ pc' = "awaitPoll"
    /\ elapsed' = elapsed + delay
    /\ apiDebug' = debugEnabled
    /\ channel' = channel \cup ApiBeginLines(debugEnabled)
    /\ shown' = (shown \/ debugEnabled)
    /\ nGet' = nGet + 1
    /\ lastRequest' = StatusRequest(portalDetails, activeCollectorId, sessionId)
    /\ lastHttp' = NoHttp
    /\ lastResult' = NoResult
    /\ UNCHANGED <<selectionVars, envVars, pullVars, otherVars, debugEnabled,
                   lastActiveScriptEditorUri, runDebug, portalDetails,
                   collectorId, sessionId, i, pollDebug, messages, reports,
                   nPost>>

\* the timer of an attempt fires: the status request is issued
PollTimer ==
    /\ pc = "delay"
    /\ pc' = "awaitPoll"
    /\ elapsed' = elapsed + delay
    /\ apiDebug' = debugEnabled
    /\ channel' = channel \cup ApiBeginLines(debugEnabled)
    /\ shown' = (shown \/ debugEnabled)
    /\ nGet' = nGet + 1
    /\ lastRequest' = StatusRequest(portalDetails, collectorId, sessionId)
    /\ lastHttp' = NoHttp
    /\ lastResult' = NoResult
    /\ UNCHANGED <<selectionVars, envVars, pullVars, otherVars, debugEnabled,
                   lastActiveScriptEditorUri, runDebug, portalDetails,
                   collectorId, sessionId, i, pollDebug, messages, reports,
                   nPost>>

\* the status request resolves: the rest of the attempt, up to the next
\* await or the return of pollDebugSession
PollResponse(http) ==
    /\ pc = "awaitPoll"
    /\ LET r == ApiEnd(http, apiDebug)
           class == PollBranch(r)
           last == ~LoopContinues(i + 1)
       IN  /\ lastHttp' = http
           /\ lastResult' = Completion(r)
           /\ channel' = channel \cup r.chan
                 \cup PollDebugLines(pollDebug, r.threw)
                 \cup PollLines(class, r.value)
           /\ messages' = messages \cup r.msgs \cup PollMessages(class)
                 \cup (IF class = "continue" /\ last
                       THEN TimeoutMessages(pollDebug) ELSE {})
           /\ IF class # "continue"
              THEN /\ pc' = PollOutcome(class)
                   /\ UNCHANGED <<i, reports>>
              ELSE /\ i' = i + 1
                   /\ pc' = IF last THEN "timedOut" ELSE "delay"
                   /\ reports' = IF last THEN reports ELSE reports + 1
    /\ UNCHANGED <<selectionVars, envVars, pullVars, otherVars, debugEnabled,
                   lastActiveScriptEditorUri, runDebug, portalDetails,
                   collectorId, sessionId, pollDebug, apiDebug, shown, nPost,
                   nGet, elapsed, lastRequest>>

(***************************************************************************)
(* Commands of the settings view.                                          *)
(***************************************************************************)
toggleDebug ==
    /\ debugEnabled' = ~debugEnabled
    /\ UNCHANGED <<selectionVars, envVars, pullVars, otherVars,
                   lastActiveScriptEditorUri, runVars, obsVars>>

(***************************************************************************)
(* The script execution protocol: one invocation of runActiveScript with   *)
(* a device selected, under every answer of the remote service.            *)
(***************************************************************************)
InitRun ==
    /\ pc = "idle"
    /\ runDebug = FALSE
    /\ portalDetails = NoPortal
    /\ collectorId = NoId
    /\ sessionId = Undefined
    /\ i = 0
    /\ pollDebug = FALSE
    /\ apiDebug = FALSE
    /\ channel = {}
    /\ messages = {}
    /\ shown = FALSE
    /\ reports = 0
    /\ nPost = 0
    /\ nGet = 0
    /\ elapsed = 0
    /\ lastRequest = NoRequest
    /\ lastHttp = NoHttp
    /\ lastResult = NoResult
    /\ pullPc = "idle"
    /\ nPull = 0

Init ==
    /\ InitRun
    /\ OtherIdle
    /\ credsFile = MatchingCreds
    /\ credentialsPath = "creds.json"
    /\ debugEnabled \in BOOLEAN
    /\ activePortal = "portal1"
    /\ activeCollectorId = 1
    /\ activeCollectorDescription = CollectorDescription(1)
    /\ activeDeviceId = 7
    /\ activeDeviceDisplayName = DeviceDisplayName(7)
    /\ activeDeviceHostname = DeviceHostname(7)
    /\ selectedFrom = NoPortal
    /\ currentPortalDetails = NoPortal
    /\ deviceNode = NoNode
    /\ lastActiveScriptEditorUri = "groovy"

\* the play button, with a Groovy script open or no script at all
Run ==
    \E opened \in {"groovy", "throws"},
       editor \in {NoDocument, [ext |-> "groovy", languageId |-> "groovy"]} :
        RunActiveScript(opened, editor)
Submitted == \E http \in SubmitHttp : SubmitResponse(http)
Polled == \E http \in PollHttp : PollResponse(http)

Next ==
    \/ Run
    \/ Submitted
    \/ PollTimer
    \/ Polled
    \/ toggleDebug

Spec == Init /\ [][Next]_vars

(***************************************************************************)
(* Navigation tree and selection commands.                                 *)
(***************************************************************************)
\* getChildren of a portal node 'portal-<label>': the entry is looked up
\* by label and its details become the current portal details
ExpandPortal(label) ==
    /\ pc = "idle" /\ pullPc = "idle"
    /\ LET creds == getCredentials(credentialsPath, credsFile)
           found == FindPortal(creds, label)
       IN  /\ messages' = messages \cup creds.msgs
           /\ currentPortalDetails' =
                 IF found # NoPortal THEN found ELSE currentPortalDetails
    /\ UNCHANGED <<selectionVars, pullVars, otherVars, credsFile, credentialsPath,
                   deviceNode, debugEnabled, lastActiveScriptEditorUri,
                   runVars, channel, shown, reports, nPost, nGet, elapsed,
                   lastRequest, lastHttp, lastResult>>

\* getChildren of a collector node 'collector-<c>': its devices are
\* fetched with the current portal details
ExpandCollector(c) ==
    /\ pc = "idle" /\ pullPc = "idle"
    /\ currentPortalDetails # NoPortal
    /\ deviceNode' = Node(currentPortalDetails, c)
    /\ UNCHANGED <<selectionVars, pullVars, otherVars, credsFile, credentialsPath,
                   currentPortalDetails, debugEnabled,
                   lastActiveScriptEditorUri, runVars, obsVars>>

\* the arguments of the command of a device item
DeviceArguments(node, d) ==
    [portalName |-> node.portal.COMPANY_NAME,
     collectorId |-> node.collectorId,
     collectorDescription |-> CollectorDescription(node.collectorId),
     deviceId |-> d,
     deviceDisplayName |-> DeviceDisplayName(d),
     deviceHostname |-> DeviceHostname(d)]

\* command logicmonitor.setActiveDevice, triggered by the device item d
\* of the listed collector node
setActiveDevice(d) ==
    /\ pc = "idle" /\ pullPc = "idle"
    /\ deviceNode # NoNode
    /\ LET args == DeviceArguments(deviceNode, d)
       IN  /\ activePortal' = args.portalName
           /\ activeCollectorId' = args.collectorId
           /\ activeCollectorDescription' = args.collectorDescription
           /\ activeDeviceId' = args.deviceId
           /\ activeDeviceDisplayName' = args.deviceDisplayName
           /\ activeDeviceHostname' = args.deviceHostname
    /\ selectedFrom' = deviceNode.portal
    /\ UNCHANGED <<envVars, pullVars, otherVars, debugEnabled,
                   lastActiveScriptEditorUri, runVars, obsVars>>

\* command logicmonitor.setActivePortal
setActivePortal(portalName) ==
    /\ pc = "idle" /\ pullPc = "idle"
    /\ activePortal' = portalName
    /\ activeCollectorId' = NoId
    /\ activeCollectorDescription' = Undefined
    /\ activeDeviceId' = NoId
    /\ activeDeviceDisplayName' = Undefined
    /\ activeDeviceHostname' = Undefined
    /\ selectedFrom' = NoPortal
    /\ UNCHANGED <<envVars, pullVars, otherVars, debugEnabled,
                   lastActiveScriptEditorUri, runVars, obsVars>>

\* command logicmonitor.setCredentials, with a file chosen in the dialog
setCredentials ==
    /\ pc = "idle" /\ pullPc = "idle"
    /\ credentialsPath' = "creds.json"
    /\ UNCHANGED <<selectionVars, pullVars, otherVars, credsFile, currentPortalDetails,
                   deviceNode, debugEnabled, lastActiveScriptEditorUri,
                   runVars, obsVars>>

\* the user rewrites, removes or restores the credentials file
EditCredentials(file) ==
    /\ pc = "idle" /\ pullPc = "idle"
    /\ file # credsFile
    /\ credsFile' = file
    /\ UNCHANGED <<selectionVars, pullVars, otherVars, credentialsPath,
                   currentPortalDetails, deviceNode, debugEnabled,
                   lastActiveScriptEditorUri, runVars, obsVars>>

\* onDidChangeActiveTextEditor
ChangeActiveTextEditor(editor) ==
    /\ pc = "idle" /\ pullPc = "idle"
    /\ lastActiveScriptEditorUri' =
          IF editor # NoDocument /\ editor.languageId \in ScriptLanguages
          THEN editor.ext ELSE lastActiveScriptEditorUri
    /\ UNCHANGED <<selectionVars, envVars, pullVars, otherVars, debugEnabled, runVars,
                   obsVars>>

(***************************************************************************)
(* pullDataSource and pullConfigSource, up to their await of the request   *)
(* for the definition.                                                     *)
(***************************************************************************)
\* the argument of the command: a tree item whose id is
\* 'remote-datasource-<id>' ("item"), a tree item with another id
\* ("other"), or a module record, whose id is a number ("record")
PullArguments == {"item", "other", "record"}
DataSourceIds == {5}
PullCommands == {"DataSource", "ConfigSource"}

\* a module as the tree shows it: its name and, for a DataSource, the
\* first text in parentheses of its display name, if any; the label of a
\* DataSource item is `${displayName} (${name})`, that of a ConfigSource
\* item is the name
ModuleNames == {"name1", "manifest"}
TreeItems == [name : ModuleNames, displayParen : {Undefined, "WMI"}]
PlainItem == [name |-> "name1", displayParen |-> Undefined]
Label(command, item) ==
    IF command = "DataSource" THEN item
    ELSE [name |-> item.name, displayParen |-> Undefined]

\* the module name the handler takes from the label: for a DataSource the
\* group of label.match(/\(([^)]+)\)/), for a ConfigSource the label
ModuleName(command, item) ==
    IF command = "DataSource" /\ TruthyStr(item.displayParen)
    THEN item.displayParen ELSE item.name

\* GET /setting/datasources/<id>?format=json
PullRequest(portal, id) ==
    [verb |-> "GET", resource |-> "/setting/datasources/<id>",
     session |-> Undefined, collectorId |-> NoId, marker |-> Undefined,
     hostId |-> NoId, moduleId |-> id, hasBody |-> FALSE, portal |-> portal]
\* GET /setting/configsources/<id>?format=json
ConfigRequest(portal, id) ==
    [PullRequest(portal, id) EXCEPT
        !.resource = "/setting/configsources/<id>"]

\* the local precondition of the pull that fails, or "none"
PullPrecondition(arg, portal) ==
    IF arg = "record" THEN "typeError"
    ELSE IF arg = "other" THEN "noDataSourceId"
    ELSE IF ~TruthyStr(activePortal) THEN "noActivePortal"
    ELSE IF portal = NoPortal THEN "portalNotFound"
    ELSE "none"

\* a pull command up to its await of makeApiRequest, triggered with the
\* tree item of the module
PullStart(command, arg, id, item) ==
    /\ pc = "idle" /\ pullPc = "idle"
    /\ LET creds == getCredentials(credentialsPath, credsFile)
           portal == FindPortal(creds, activePortal)
           reason == PullPrecondition(arg, portal)
       IN  IF reason # "none"
           THEN /\ pullPc' = (IF reason = "typeError" THEN "threw"
                              ELSE "aborted")
                /\ messages' = messages
                      \cup (IF reason = "typeError" THEN {}
                            ELSE {Message("error", reason)})
                      \cup (IF reason = "portalNotFound"
                            THEN creds.msgs ELSE {})
                /\ UNCHANGED <<nPull, apiDebug, channel, shown, lastRequest,
                               pullItem>>
           ELSE /\ pullPc' = "awaitPull"
                /\ pullItem' =
                      [command |-> command,
                       name |-> ModuleName(command, item),
                       label |-> Label(command, item), id |-> id,
                       portal |-> activePortal, debug |-> debugEnabled]
                /\ nPull' = nPull + 1
                /\ apiDebug' = debugEnabled
                /\ channel' = channel
                      \cup (IF debugEnabled
                            THEN {Line(IF command = "DataSource"
                                       THEN "pullingDataSource"
                                       ELSE "pullingConfigSource")} ELSE {})
                      \cup ApiBeginLines(debugEnabled)
                /\ shown' = (shown \/ debugEnabled)
                /\ lastRequest' =
                      IF command = "DataSource"
                      THEN PullRequest(portal, id)
                      ELSE ConfigRequest(portal, id)
                /\ UNCHANGED messages
    /\ UNCHANGED <<selectionVars, envVars, signVars, pageVars, concVars,
                   submitVars, selectVars, treeVars, workspaceFolders, dirs, files, writes,
                   pulled, debugEnabled,
                   lastActiveScriptEditorUri, pc, runDebug, portalDetails,
                   collectorId, sessionId, i, pollDebug, reports, nPost,
                   nGet, elapsed, lastHttp, lastResult>>

\* command logicmonitor.pullDataSource, on an item with a plain display name
pullDataSource(arg, id) == PullStart("DataSource", arg, id, PlainItem)

(***************************************************************************)
(* Selection and submission: every credentials file, the navigation tree,  *)
(* the selection commands and one invocation of runActiveScript or of      *)
(* pullDataSource, up to the answer to the request it issues.              *)
(***************************************************************************)
PortalNames == {"prod", "sandbox", "portal1", "portal2"}

InitNav ==
    /\ InitRun
    /\ OtherIdle
    /\ credsFile \in CredFiles
    /\ credentialsPath \in {Undefined, "creds.json"}
    /\ debugEnabled = FALSE
    /\ activePortal = Undefined
    /\ activeCollectorId = NoId
    /\ activeCollectorDescription = Undefined
    /\ activeDeviceId = NoId
    /\ activeDeviceDisplayName = Undefined
    /\ activeDeviceHostname = Undefined
    /\ selectedFrom = NoPortal
    /\ currentPortalDetails = NoPortal
    /\ deviceNode = NoNode
    /\ lastActiveScriptEditorUri = Undefined

Expanded == \E label \in PortalNames : ExpandPortal(label)
CollectorExpanded == \E c \in CollectorIds : ExpandCollector(c)
DeviceClicked == \E d \in DeviceIds : setActiveDevice(d)
PortalSet == \E n \in PortalNames : setActivePortal(n)
EditorChanged ==
    \E editor \in Documents \cup {NoDocument} : ChangeActiveTextEditor(editor)
RunAny ==
    \E opened \in Languages \cup {"throws"},
       editor \in Documents \cup {NoDocument} :
        RunActiveScript(opened, editor)
CredentialsEdited == \E file \in CredFiles : EditCredentials(file)
Pulled == \E arg \in PullArguments, id \in DataSourceIds :
              pullDataSource(arg, id)

NextNav ==
    \/ Expanded
    \/ CollectorExpanded
    \/ DeviceClicked
    \/ PortalSet
    \/ setCredentials
    \/ CredentialsEdited
    \/ EditorChanged
    \/ toggleDebug
    \/ RunAny
    \/ Submitted
    \/ Pulled

SpecNav == InitNav /\ [][NextNav]_vars

(***************************************************************************)
(* Request signing: generateLMv1AuthHeader and makeApiRequest up to its    *)
(* call of fetch.                                                          *)
(*                                                                         *)
(* HMAC-SHA256 is a deterministic function that is not computed here: the  *)
(* table hmacSha256 holds the digest of every (key, message) it has been   *)
(* asked for, and a message met for the first time gets any digest.        *)
(***************************************************************************)
\* largest value of Date.now()
MaxNow == 10
\* largest number of distinct (key, message) pairs signed
MaxSigned == 2

\* the characters of the names the model writes as TLA+ strings
Chars(s) ==
    CASE s = "GET" -> <<"G", "E", "T">>
      [] s = "POST" -> <<"P", "O", "S", "T">>
      [] s = "/debug" -> <<"/", "d", "e", "b", "u", "g">>
      [] s = "/debug/" -> <<"/", "d", "e", "b", "u", "g", "/">>
      [] s = "id1" -> <<"i", "d", "1">>
      [] s = "id2" -> <<"i", "d", "2">>
      [] s = "s1" -> <<"s", "1">>
      [] s = "s2" -> <<"s", "2">>
      [] s = "!groovy" -> <<"!", "g", "r", "o", "o", "v", "y">>
      [] s = "!posh" -> <<"!", "p", "o", "s", "h">>
      [] s = " hostId=" -> <<" ", "h", "o", "s", "t", "I", "d", "=">>
      [] s = "LMv1 " -> <<"L", "M", "v", "1", " ">>
      [] s = "null" -> NULLTXT
      [] s = "{\"cmdline\":\"" ->
            <<"{", "\"", "c", "m", "d", "l", "i", "n", "e", "\"", ":", "\"">>
      [] s = "\"}" -> <<"\"", "}">>

DigitChars == <<"0", "1", "2", "3", "4", "5", "6", "7", "8", "9">>
HexDigits == DigitChars \o <<"a", "b", "c", "d", "e", "f">>
\* the UTF-8 code of each hexadecimal digit
HexCodes ==
    <<48, 49, 50, 51, 52, 53, 54, 55, 56, 57, 97, 98, 99, 100, 101, 102>>
HexCodeOf ==
    [c \in {HexDigits[h] : h \in 1..16} |->
        HexCodes[CHOOSE h \in 1..16 : HexDigits[h] = c]]
Base64Alphabet ==
    <<"A", "B", "C", "D", "E", "F", "G", "H", "I", "J", "K", "L", "M",
      "N", "O", "P", "Q", "R", "S", "T", "U", "V", "W", "X", "Y", "Z",
      "a", "b", "c", "d", "e", "f", "g", "h", "i", "j", "k", "l", "m",
      "n", "o", "p", "q", "r", "s", "t", "u", "v", "w", "x", "y", "z",
      "0", "1", "2", "3", "4", "5", "6", "7", "8", "9", "+", "/">>

\* String(n) of a non-negative integer
RECURSIVE Decimal(_)
Decimal(n) ==
    IF n < 10 THEN <<DigitChars[n + 1]>>
    ELSE Decimal(n \div 10) \o <<DigitChars[(n % 10) + 1]>>

\* digest('hex'): two lower-case hexadecimal digits for each byte
HexText(bytes) ==
    [k \in 1..(2 * Len(bytes)) |->
        LET b == bytes[(k + 1) \div 2]
        IN  HexDigits[(IF k % 2 = 1 THEN b \div 16 ELSE b % 16) + 1]]

\* Buffer.from(text) of a text of hexadecimal digits: its UTF-8 bytes
Utf8(text) ==
    [k \in 1..Len(text) |-> HexCodeOf[text[k]]]

\* Buffer.toString('base64'), with padding
Base64(bytes) ==
    LET n == Len(bytes)
        groups == (n + 2) \div 3
        pad == 3 * groups - n
        byte(k) == IF k <= n THEN bytes[k] ELSE 0
        triple(g) ==
            byte(3 * g - 2) * 65536 + byte(3 * g - 1) * 256 + byte(3 * g)
        sextet(g, j) == (triple(g) \div <<262144, 4096, 64, 1>>[j + 1]) % 64
    IN  [k \in 1..(4 * groups) |->
            IF k > 4 * groups - pad THEN "="
            ELSE Base64Alphabet[sextet((k - 1) \div 4 + 1, (k - 1) % 4) + 1]]

\* the 32-byte digests a message can get
Digests ==
    {[k \in 1..32 |-> (7 * k) % 256], [k \in 1..32 |-> (255 - 5 * k) % 256]}

\* the request data of the callers: null, or the payload of a submit
NoData == [type |-> "null", cmdline |-> <<>>]
Payload(cmdline) == [type |-> "object", cmdline |-> cmdline]
TruthyData(data) == data.type = "object"

\* JSON.stringify(data)
JSONstringify(data) ==
    LET escape(c) ==
            IF c = NL THEN <<"\\", "n">>
            ELSE IF c = CR THEN <<"\\", "r">>
            ELSE IF c = "\"" THEN <<"\\", "\"">>
            ELSE IF c = "\\" THEN <<"\\", "\\">>
            ELSE <<c>>
    IN  IF data.type = "null" THEN Chars("null")
        ELSE Chars("{\"cmdline\":\"")
             \o Concat([k \in 1..Len(data.cmdline) |-> escape(data.cmdline[k])])
             \o Chars("\"}")

\* the argument of update(): httpVerb + epoch + data + resourcePath
SignedString(httpVerb, epoch, data, resourcePath) ==
    httpVerb \o epoch \o data \o resourcePath

\* the signature with the raw digest bytes encoded as base64
Signature_RawBytes(digest) == Base64(digest)

\* Buffer.from(digest('hex')).toString('base64')
Signature(digest) == Base64(Utf8(HexText(digest)))

\* the signature of each digest
SignatureOf == [digest \in Digests |-> Signature(digest)]

\* generateLMv1AuthHeader, given the digests computed so far
generateLMv1AuthHeader(table, apiId, apiKey, httpVerb, resourcePath, epoch, data) ==
    LET message == SignedString(httpVerb, epoch, data, resourcePath)
    IN  Chars("LMv1 ") \o Chars(apiId) \o <<":">>
        \o SignatureOf[table[<<apiKey, message>>]] \o <<":">> \o epoch

\* requestData with the data stringified whatever it is
RequestData_Stringified(data) == JSONstringify(data)

\* const requestData = data ? JSON.stringify(data) : ''
RequestData(data) == IF TruthyData(data) THEN JSONstringify(data) ELSE <<>>

\* makeApiRequest up to its call of fetch; digest is the HMAC-SHA256 of the
\* signed string under the access key when it has not been computed before
SignedFetch(portal, httpVerb, resourcePath, data, digest) ==
    LET epoch == Decimal(now)
        requestData == RequestData(data)
        message == SignedString(httpVerb, epoch, requestData, resourcePath)
        query == <<portal.API_ACCESS_KEY, message>>
        known == query \in DOMAIN hmacSha256
        table == [q \in DOMAIN hmacSha256 \cup {query} |->
                    IF q \in DOMAIN hmacSha256 THEN hmacSha256[q]
                    ELSE digest]
        authHeader ==
            generateLMv1AuthHeader(table, portal.API_ACCESS_ID,
                                   portal.API_ACCESS_KEY, httpVerb,
                                   resourcePath, epoch, requestData)
    IN  /\ known \/ Cardinality(DOMAIN hmacSha256) < MaxSigned
        /\ hmacSha256' = table
        /\ signedData' = message
        /\ authHeaders' = authHeaders \cup
              {[apiId |-> portal.API_ACCESS_ID,
                apiKey |-> portal.API_ACCESS_KEY, httpVerb |-> httpVerb,
                resourcePath |-> resourcePath, epoch |-> epoch,
                data |-> requestData, header |-> authHeader]}
        /\ fetchCall' =
              [method |-> httpVerb, host |-> portal.COMPANY_NAME,
               path |-> resourcePath, authorization |-> authHeader,
               hasBody |-> TruthyData(data),
               body |-> IF TruthyData(data) THEN requestData ELSE <<>>]

\* a call of makeApiRequest on its own
MakeApiRequest(portal, httpVerb, resourcePath, data, digest) ==
        /\ SignedFetch(portal, httpVerb, resourcePath, data, digest)
        /\ UNCHANGED <<now, selectionVars, envVars, pullVars, debugEnabled,
                       lastActiveScriptEditorUri, runVars, obsVars, pageVars,
                       concVars, submitVars, fileVars, selectVars, treeVars>>

\* time passes
Tick ==
    /\ now < MaxNow
    /\ now' = now + 1
    /\ UNCHANGED <<hmacSha256, signedData, fetchCall, authHeaders,
                   selectionVars, envVars, pullVars, debugEnabled,
                   lastActiveScriptEditorUri, runVars, obsVars, pageVars,
                       concVars, submitVars, fileVars, selectVars, treeVars>>

\* the requests of the callers of makeApiRequest: a submit, a status
\* request and the request for a module definition
SignedRequests ==
    {<<"POST", Chars("/debug"),
       Payload(Chars("!groovy") \o Chars(" hostId=") \o Decimal(7)
               \o <<NL, "1">>)>>,
     <<"POST", Chars("/debug"),
       Payload(Chars("!posh") \o Chars(" hostId=") \o Decimal(8)
               \o <<NL, "\"", "\\", "\"">>)>>,
     <<"GET", Chars("/debug/") \o Chars("s1"), NoData>>,
     <<"GET", Chars("/debug"), NoData>>}

Requested ==
    \E e \in ReadmeCreds.entries, r \in SignedRequests, digest \in Digests :
        MakeApiRequest(e[2], Chars(r[1]), r[2], r[3], digest)

\* the workspace state and the navigation tree after activation, with
\* the credentials of README.md
InitWorkspace ==
    /\ credsFile = ReadmeCreds
    /\ credentialsPath = "creds.json"
    /\ debugEnabled = FALSE
    /\ activePortal = Undefined
    /\ activeCollectorId = NoId
    /\ activeCollectorDescription = Undefined
    /\ activeDeviceId = NoId
    /\ activeDeviceDisplayName = Undefined
    /\ activeDeviceHostname = Undefined
    /\ selectedFrom = NoPortal
    /\ currentPortalDetails = NoPortal
    /\ deviceNode = NoNode
    /\ lastActiveScriptEditorUri = Undefined

InitSign ==
    /\ InitRun
    /\ OtherIdle
    /\ InitWorkspace

NextSign ==
    \/ Requested
    \/ Tick

SpecSign == InitSign /\ [][NextSign]_vars

(***************************************************************************)
(* The paginated fetchers: getCollectorGroups, getCollectors, getDevices   *)
(* and the fetchers of the module types, which share one loop.             *)
(***************************************************************************)
\* largest number of page requests the remote collection is long enough for
MaxPages == 2

\* const size = 1000
size == 1000

Fetchers ==
    {"getCollectorGroups", "getCollectors", "getDevices",
     "getRemoteDataSources", "getRemotePropertySources"}

\* the field the returned array is sorted by, or "none"
SortKey_None(f) == "none"

SortKey(f) ==
    IF f \in {"getCollectorGroups", "getCollectors"} THEN "none"
    ELSE IF f \in {"getDevices", "getRemoteDataSources"} THEN "displayName"
    ELSE "name"

\* the item of the remote collection at position id; names are ranks in
\* the order of localeCompare
Item(id) ==
    [id |-> id, name |-> 3 - (id % 3), displayName |-> 3 - ((id \div 2) % 3)]
\* an element appended by concat() for an items value that is not an array
NotAnItem == [id |-> NoId, name |-> 4, displayName |-> 4]

\* the responses to a page request at the given offset. kind is "list"
\* for an items array, "null" for a null body, "noItems" for an object
\* without items, "itemsFalsy", "itemsText" (a non-empty string shorter
\* than size) and "itemsObject" for an items value that is no array, and
\* "throws" when makeApiRequest throws
Page(kind, first, n) ==
    [kind |-> kind, items |-> [k \in 1..n |-> Item(first + k)]]
PageLengths == {0, 2, size - 1, size}
PageResponses(first, more) ==
    {Page("list", first, n) : n \in {m \in PageLengths : more \/ m < size}}
    \cup {Page(kind, first, 0) :
             kind \in {"null", "noItems", "itemsFalsy", "itemsText", "throws"}
                      \cup (IF more THEN {"itemsObject"} ELSE {})}

\* array.sort((a, b) => a[key].localeCompare(b[key])): a stable sort
StableSort(seq, key) ==
    IF key = "none" THEN seq
    ELSE SelectSeq(seq, LAMBDA x : x[key] = 1)
         \o SelectSeq(seq, LAMBDA x : x[key] = 2)
         \o SelectSeq(seq, LAMBDA x : x[key] = 3)
         \o SelectSeq(seq, LAMBDA x : x[key] = 4)

\* HasMore with the loop going on after a short page
HasMore_NonEmpty(response) ==
    IF response.kind = "list" THEN Len(response.items) > 0
    ELSE response.kind = "itemsObject"

\* whether the loop goes on after appending a truthy items value:
\* !(response.items.length < size), where the length of a value without
\* one is undefined and undefined < size is false
HasMore(response) ==
    IF response.kind = "list" THEN ~(Len(response.items) < size)
    ELSE response.kind = "itemsObject"

\* the call of a fetcher, up to its first await
Fetch(f) ==
    /\ fetchPc = "idle"
    /\ fetchPc' = "awaitPage"
    /\ fetcher' = f
    /\ offset' = 0
    /\ allItems' = <<>>
    /\ pageRequests' = <<[offset |-> 0, size |-> size]>>
    /\ pages' = <<>>
    /\ fetched' = <<>>
    /\ UNCHANGED <<selectionVars, envVars, pullVars, signVars, concVars, submitVars, fileVars, selectVars, treeVars,
                   debugEnabled, lastActiveScriptEditorUri, runVars, obsVars>>

\* a catch block returning the items of the pages fetched so far
FetchCaught_Partial(all) == all
\* catch (error) { console.error(...); return []; }
FetchCaught(all) == <<>>

\* a page request resolves: the rest of the loop body, up to the next
\* request or the return. compareThrows: whether the comparator reads
\* the sort key of an element that is not an item
PageResponse(response, compareThrows) ==
    /\ fetchPc = "awaitPage"
    /\ pages' = Append(pages, response)
    /\ LET truthy == response.kind \in {"list", "itemsText", "itemsObject"}
           appended == IF response.kind = "list" THEN response.items
                       ELSE <<NotAnItem>>
           all == IF truthy THEN allItems \o appended ELSE allItems
           more == truthy /\ HasMore(response)
           key == SortKey(fetcher)
           sortFails == /\ key # "none" /\ Len(all) >= 2 /\ compareThrows
                        /\ \E k \in 1..Len(all) : all[k] = NotAnItem
       IN  IF response.kind = "throws"
           THEN /\ fetchPc' = "returned"
                /\ fetched' = FetchCaught(allItems)
                /\ UNCHANGED <<offset, allItems, pageRequests>>
           ELSE /\ allItems' = all
                /\ IF more
                   THEN /\ fetchPc' = "awaitPage"
                        /\ offset' = offset + size
                        /\ pageRequests' =
                              Append(pageRequests,
                                     [offset |-> offset + size, size |-> size])
                        /\ UNCHANGED fetched
                   ELSE /\ fetchPc' = "returned"
                        /\ fetched' = IF sortFails THEN <<>>
                                      ELSE StableSort(all, key)
                        /\ UNCHANGED <<offset, pageRequests>>
    /\ UNCHANGED <<fetcher, selectionVars, envVars, pullVars, signVars,
                   concVars, submitVars, fileVars, selectVars, treeVars, debugEnabled,
                   lastActiveScriptEditorUri, runVars, obsVars>>

\* the caller takes the result; the fetcher can be called again
FetchDone ==
    /\ fetchPc = "returned"
    /\ fetchPc' = "idle"
    /\ fetcher' = Undefined
    /\ offset' = 0
    /\ allItems' = <<>>
    /\ pageRequests' = <<>>
    /\ pages' = <<>>
    /\ fetched' = <<>>
    /\ UNCHANGED <<selectionVars, envVars, pullVars, signVars, concVars, submitVars, fileVars, selectVars, treeVars,
                   debugEnabled, lastActiveScriptEditorUri, runVars, obsVars>>

FetchCalled == \E f \in Fetchers : Fetch(f)
PageReceived ==
    \E compareThrows \in BOOLEAN,
       response \in PageResponses(offset, Len(pageRequests) < MaxPages) :
        PageResponse(response, compareThrows)

InitPages ==
    /\ InitRun
    /\ OtherIdle
    /\ InitWorkspace

NextPages ==
    \/ FetchCalled
    \/ PageReceived
    \/ FetchDone

SpecPages == InitPages /\ [][NextPages]_vars

(***************************************************************************)
(* Overlapping invocations of runActiveScript.  Each invocation runs from  *)
(* one await to the next; between two continuations the event loop may     *)
(* turn to the other invocation or to a selection command.  The output     *)
(* channel, the notifications, the workspace state and                     *)
(* lastActiveScriptEditorUri are common to the invocations.                *)
(***************************************************************************)
\* largest number of inconclusive answers to the status requests of one
\* invocation
MaxInconclusive == 1

\* a credentials file whose labels are the company names
TwoPortals ==
    CredsFile(TRUE, {<<"portal1", Portal("id1", "key1", "portal1")>>,
                     <<"portal2", Portal("id2", "key2", "portal2")>>})

\* the event loop turns to the other invocation
Switch ==
    /\ pc # "idle"
    /\ focus' = 3 - focus
    /\ parked' = Locals
    /\ pc' = parked.pc
    /\ runDebug' = parked.runDebug
    /\ portalDetails' = parked.portalDetails
    /\ collectorId' = parked.collectorId
    /\ sessionId' = parked.sessionId
    /\ i' = parked.i
    /\ pollDebug' = parked.pollDebug
    /\ apiDebug' = parked.apiDebug
    /\ reports' = parked.reports
    /\ nPost' = parked.nPost
    /\ nGet' = parked.nGet
    /\ elapsed' = parked.elapsed
    /\ lastRequest' = parked.lastRequest
    /\ lastHttp' = parked.lastHttp
    /\ lastResult' = parked.lastResult
    /\ UNCHANGED <<selectionVars, envVars, pullVars, signVars, pageVars,
                   submitVars, fileVars, selectVars, treeVars, debugEnabled,
                   lastActiveScriptEditorUri, channel, messages, shown>>

\* the session identifier the service gives to each submit
SessionOf(n) == IF n = 1 THEN "s1" ELSE "s2"

ConcRun ==
    RunActiveScript("groovy", [ext |-> "groovy", languageId |-> "groovy"])
ConcSubmitted ==
    \E http \in {NetworkError,
                 Parsed(TRUE, Body(Absent, AbsentOutput, SessionOf(focus)))} :
        SubmitResponse(http)
ConcPolled ==
    \/ /\ i < MaxInconclusive
       /\ \E http \in {NetworkError,
                       Parsed(TRUE, Body("running", AbsentOutput, Absent))} :
              PollResponse(http)
    \/ \E st \in {"completed", "cancelled"} :
          PollResponse(Parsed(TRUE, Body(st, AbsentOutput, Absent)))
ConcExpanded == ExpandPortal("portal2")
ConcPortalSet == setActivePortal("portal2")

InitConc ==
    /\ InitRun
    /\ OtherIdle
    /\ credsFile = TwoPortals
    /\ credentialsPath = "creds.json"
    /\ debugEnabled = FALSE
    /\ activePortal = "portal1"
    /\ activeCollectorId = 1
    /\ activeCollectorDescription = CollectorDescription(1)
    /\ activeDeviceId = 7
    /\ activeDeviceDisplayName = DeviceDisplayName(7)
    /\ activeDeviceHostname = DeviceHostname(7)
    /\ selectedFrom = Portal("id1", "key1", "portal1")
    /\ currentPortalDetails = Portal("id1", "key1", "portal1")
    /\ deviceNode = Node(Portal("id1", "key1", "portal1"), 1)
    /\ lastActiveScriptEditorUri = "groovy"

NextConc ==
    \/ ConcRun
    \/ ConcSubmitted
    \/ PollTimer
    \/ ConcPolled
    \/ Switch
    \/ ConcExpanded
    \/ CollectorExpanded
    \/ DeviceClicked
    \/ ConcPortalSet

SpecConc == InitConc /\ [][NextConc]_vars

(***************************************************************************)
(* runActiveScript with its script text, split at its await of             *)
(* getCredentials: the selection may change while the credentials are      *)
(* read.  One invocation is followed.                                      *)
(***************************************************************************)
\* the texts of the script documents
ScriptTexts == {<<"1">>, <<"\"", NL, "x">>}

\* Cmdline with a space in place of the newline
Cmdline_Space(scriptType, deviceId, scriptContent) ==
    Chars(scriptType) \o Chars(" hostId=") \o Decimal(deviceId) \o <<" ">>
    \o scriptContent

\* `${scriptType} hostId=${activeDeviceId}\n${scriptContent}`
Cmdline(scriptType, deviceId, scriptContent) ==
    Chars(scriptType) \o Chars(" hostId=") \o Decimal(deviceId) \o <<NL>>
    \o scriptContent

\* the handler from the resolution of the document to its await of
\* getCredentials: the text, the marker and the selection are read
ReadSelection(opened, editor, text) ==
    /\ pc = "idle" /\ pullPc = "idle"
    /\ submitPc = "idle"
    /\ LET res == ResolveDocument(lastActiveScriptEditorUri, opened, editor)
           document == res.document
           reason ==
               IF document = NoDocument THEN "noEditor"
               ELSE IF ScriptType(document) = Undefined THEN "unsupported"
               ELSE IF ~TruthyStr(activePortal) \/ ~TruthyNum(activeDeviceId)
                       \/ ~TruthyNum(activeCollectorId) THEN "noSelection"
               ELSE "none"
       IN  /\ lastActiveScriptEditorUri' = res.lastUri
           /\ IF reason # "none"
              THEN /\ submitPc' = "aborted"
                   /\ snapshot' = NoSnapshot
                   /\ messages' = messages \cup {PreconditionMessage(reason)}
              ELSE /\ submitPc' = "awaitCredentials"
                   /\ snapshot' =
                         [debugEnabled |-> debugEnabled,
                          document |-> document,
                          scriptContent |-> text,
                          scriptType |-> ScriptType(document),
                          activePortalName |-> activePortal,
                          activeDeviceId |-> activeDeviceId,
                          activeCollectorId |-> activeCollectorId]
                   /\ UNCHANGED messages
    /\ UNCHANGED <<selectionVars, envVars, pullVars, signVars, pageVars,
                   concVars, fileVars, selectVars, treeVars, queryParams, nSubmit, debugEnabled,
                   runVars,
                   channel, shown, reports, nPost, nGet, elapsed,
                   lastRequest, lastHttp, lastResult>>

\* the handler from the resolution of getCredentials to its await of
\* makeApiRequest, which runs to its call of fetch
SubmitScript(digest) ==
    /\ submitPc = "awaitCredentials"
    /\ LET creds == getCredentials(credentialsPath, credsFile)
           portal == FindPortal(creds, snapshot.activePortalName)
       IN  IF portal = NoPortal
           THEN /\ submitPc' = "aborted"
                /\ messages' = messages \cup creds.msgs
                      \cup {PreconditionMessage("portalNotFound")}
                /\ UNCHANGED <<signVars, queryParams, nSubmit, channel,
                               shown>>
           ELSE /\ submitPc' = "awaitSubmit"
                /\ queryParams' =
                      <<<<"collectorId",
                          Decimal(snapshot.activeCollectorId)>>>>
                /\ SignedFetch(portal, Chars("POST"), Chars("/debug"),
                               Payload(Cmdline(snapshot.scriptType,
                                               snapshot.activeDeviceId,
                                               snapshot.scriptContent)),
                               digest)
                /\ nSubmit' = nSubmit + 1
                /\ channel' = channel
                      \cup (IF snapshot.debugEnabled
                            THEN {Line("debugApiCall")} ELSE {})
                      \cup ApiBeginLines(debugEnabled)
                /\ shown' = (shown \/ debugEnabled)
                /\ UNCHANGED <<now, messages>>
    /\ UNCHANGED <<selectionVars, envVars, pullVars, pageVars, concVars,
                   fileVars, selectVars, treeVars, snapshot, debugEnabled, lastActiveScriptEditorUri,
                   runVars, reports, nPost, nGet, elapsed, lastRequest,
                   lastHttp, lastResult>>

SelectionRead ==
    \E opened \in Languages \cup {"throws"},
       editor \in {NoDocument, [ext |-> "txt", languageId |-> "powershell"]},
       text \in ScriptTexts :
        ReadSelection(opened, editor, text)
SubmitExpanded == \E label \in {"portal2", "sandbox"} : ExpandPortal(label)
ScriptSubmitted == \E digest \in Digests : SubmitScript(digest)

\* the workspace after some use: a credentials file, a debug flag and a
\* last script editor, nothing selected yet
InitSubmit ==
    /\ InitRun
    /\ OtherIdle
    /\ credsFile \in {TwoPortals, ReadmeCreds}
    /\ credentialsPath = "creds.json"
    /\ debugEnabled \in BOOLEAN
    /\ activePortal = Undefined
    /\ activeCollectorId = NoId
    /\ activeCollectorDescription = Undefined
    /\ activeDeviceId = NoId
    /\ activeDeviceDisplayName = Undefined
    /\ activeDeviceHostname = Undefined
    /\ selectedFrom = NoPortal
    /\ currentPortalDetails = NoPortal
    /\ deviceNode = NoNode
    /\ lastActiveScriptEditorUri \in Extensions \cup {Undefined}

NextSubmit ==
    \/ SubmitExpanded
    \/ CollectorExpanded
    \/ DeviceClicked
    \/ ConcPortalSet
    \/ SelectionRead
    \/ ScriptSubmitted

SpecSubmit == InitSubmit /\ [][NextSubmit]_vars

(***************************************************************************)
(* The answer to a status request, over outputs that carry a return value. *)
(***************************************************************************)
\* largest number of tokens between the start of an output and its tail
MaxHead == 3

\* the pieces the first line of an output is built from
HeadTokens == {<<" ">>, <<"-">>, <<"1">>, <<"0">>, NULLTXT, <<"x">>}
\* the ends of an output
OutputTails ==
    {<<>>, <<NL>>, <<NL, "x", NL, NL, "y">>, <<"x">> \o CANCELLED,
     <<NL>> \o CANCELLED}
ReturnOutputs ==
    {prefix \o Concat(ts) \o tail :
        prefix \in {<<>>, RETURNS},
        ts \in UNION {[1..n -> HeadTokens] : n \in 0..MaxHead},
        tail \in OutputTails}
ReturnBodies ==
    {Body(st, StringOutput(out), Absent) :
        st \in {Absent, "completed", "cancelled"}, out \in ReturnOutputs}

ParsedPoll ==
    /\ pc = "awaitPoll"
    /\ \E body \in ReturnBodies : PollResponse(Parsed(TRUE, body))

\* the first status request of a run awaits its answer
InitParse ==
    /\ OtherIdle
    /\ credsFile = MatchingCreds
    /\ credentialsPath = "creds.json"
    /\ debugEnabled = FALSE
    /\ activePortal = "portal1"
    /\ activeCollectorId = 1
    /\ activeCollectorDescription = CollectorDescription(1)
    /\ activeDeviceId = 7
    /\ activeDeviceDisplayName = DeviceDisplayName(7)
    /\ activeDeviceHostname = DeviceHostname(7)
    /\ selectedFrom = NoPortal
    /\ currentPortalDetails = NoPortal
    /\ deviceNode = NoNode
    /\ lastActiveScriptEditorUri = "groovy"
    /\ pullPc = "idle"
    /\ nPull = 0
    /\ pc = "awaitPoll"
    /\ runDebug = FALSE
    /\ portalDetails = Portal("id1", "key1", "portal1")
    /\ collectorId = 1
    /\ sessionId = "s1"
    /\ i = 0
    /\ pollDebug = FALSE
    /\ apiDebug = FALSE
    /\ channel = {}
    /\ messages = {}
    /\ shown = TRUE
    /\ reports = 1
    /\ nPost = 1
    /\ nGet = 1
    /\ elapsed = delay
    /\ lastRequest =
          StatusRequest(Portal("id1", "key1", "portal1"), 1, "s1")
    /\ lastHttp = NoHttp
    /\ lastResult = NoResult

NextParse == ParsedPoll

SpecParse == InitParse /\ [][NextParse]_vars

(***************************************************************************)
(* The pull commands from the answer to the request for the definition:    *)
(* the files written under the workspace folder.  A file is named by its   *)
(* directory and its name, a name by its stem and its extension.           *)
(***************************************************************************)
\* collectorAttribute and autoDiscoveryConfig of a module definition
NoAttribute ==
    [present |-> FALSE, groovyScript |-> Absent, scriptType |-> Absent]
CollectorAttributes ==
    {NoAttribute} \cup
    [present : {TRUE}, groovyScript : {Absent, EmptyString, "collect"},
     scriptType : {"embed", "powerShell"}]
NoDiscovery ==
    [present |-> FALSE, hasMethod |-> FALSE, groovyScript |-> Absent,
     type |-> Absent]
DiscoveryConfigs ==
    {NoDiscovery, [NoDiscovery EXCEPT !.present = TRUE]} \cup
    [present : {TRUE}, hasMethod : {TRUE},
     groovyScript : {Absent, EmptyString, "discover"},
     type : {"embed", "powerShell"}]
NullDefinition ==
    [isNull |-> TRUE, collectorAttribute |-> NoAttribute,
     autoDiscoveryConfig |-> NoDiscovery]
Definitions ==
    {NullDefinition} \cup
    [isNull : {FALSE}, collectorAttribute : CollectorAttributes,
     autoDiscoveryConfig : DiscoveryConfigs]

\* JavaScript truthiness of a script field
TruthyScript(g) == g # Absent /\ g # EmptyString

File(stem, ext) == <<stem, ext>>
\* JSON.stringify(value, null, 2) and a script body as file contents
JsonText(value) == [type |-> "json", value |-> value]
ScriptText(g) == [type |-> "text", value |-> g]

\* manifestContent
Manifest(item, date) ==
    [name |-> item.name,
     \* treeItem.label; the label of a ConfigSource item is its name
     displayName |-> item.label,
     id |-> item.id, portal |-> item.portal, moduleType |-> item.command,
     pullDate |-> date]

\* ScriptExtension with the extension of pullConfigSource in both commands
ScriptExtension_ByType(command, type) ==
    IF type = "powerShell" THEN ".ps1" ELSE ".groovy"

\* the extension of a script file
ScriptExtension(command, type) ==
    IF command = "ConfigSource" /\ type = "powerShell"
    THEN ".ps1" ELSE ".groovy"

\* the writes of the discovery script and of the collection script
DiscoveryWrite(command, def) ==
    LET adc == def.autoDiscoveryConfig
    IN  IF adc.present /\ adc.hasMethod /\ TruthyScript(adc.groovyScript)
        THEN <<[file |-> File("discovery",
                              ScriptExtension(command, adc.type)),
                text |-> ScriptText(adc.groovyScript),
                msg |-> Message("info", "discoverySaved")]>>
        ELSE <<>>
CollectionWrite(command, def) ==
    LET ca == def.collectorAttribute
    IN  IF ca.present /\ TruthyScript(ca.groovyScript)
        THEN <<[file |-> File("collection",
                              ScriptExtension(command, ca.scriptType)),
                text |-> ScriptText(ca.groovyScript),
                msg |-> Message("info", "collectionSaved")]>>
        ELSE <<>>

\* the calls of writeFileSync of a pull, in order; property access on a
\* null definition throws after the manifest is written
FileWrites(item, def, date) ==
    <<[file |-> File(item.name, ".json"), text |-> JsonText(def),
       msg |-> Message("info", "none")],
      [file |-> File("manifest", ".json"),
       text |-> JsonText(Manifest(item, date)),
       msg |-> Message("info", "manifestSaved")]>>
    \o (IF def.isNull THEN <<>>
        ELSE IF item.command = "DataSource"
        THEN DiscoveryWrite(item.command, def)
             \o CollectionWrite(item.command, def)
        ELSE CollectionWrite(item.command, def)
             \o DiscoveryWrite(item.command, def))

\* WriteAll with a backup copy kept of every file that is overwritten
\* WriteAll into a directory emptied first
WriteAll_Fresh(fs, dir, ws) ==
    LET kept == {q \in DOMAIN fs : q[1] # dir}
        written == {<<dir, ws[k].file>> : k \in 1..Len(ws)}
        last(q) == CHOOSE k \in 1..Len(ws) :
                      /\ ws[k].file = q[2]
                      /\ \A j \in (k + 1)..Len(ws) : ws[j].file # q[2]
    IN  [q \in kept \cup written |->
            IF q \in written THEN ws[last(q)].text ELSE fs[q]]

RECURSIVE WriteAll_Backup(_, _, _)
WriteAll_Backup(fs, dir, ws) ==
    IF ws = <<>> THEN fs
    ELSE LET path == <<dir, Head(ws).file>>
             backup == <<dir, <<Head(ws).file[1], ".bak">>>>
             new == IF path \in DOMAIN fs THEN {path, backup} ELSE {path}
         IN  WriteAll_Backup([q \in DOMAIN fs \cup new |->
                                 IF q = path THEN Head(ws).text
                                 ELSE IF q = backup /\ path \in DOMAIN fs
                                 THEN fs[path] ELSE fs[q]],
                             dir, Tail(ws))

\* the files after the writes ws into directory dir
RECURSIVE WriteAll(_, _, _)
WriteAll(fs, dir, ws) ==
    IF ws = <<>> THEN fs
    ELSE LET path == <<dir, Head(ws).file>>
         IN  WriteAll([q \in DOMAIN fs \cup {path} |->
                          IF q = path THEN Head(ws).text ELSE fs[q]],
                      dir, Tail(ws))

\* Saved without the test of the workspace folders
Saved_AnyFolder(threw, folders) == ~threw

\* whether the handler reaches its calls of mkdirSync and writeFileSync
Saved(threw, folders) == ~threw /\ folders

\* a pull command from the resolution of makeApiRequest to its end
PullResponse(http) ==
    /\ pullPc = "awaitPull"
    /\ LET r == ApiEnd(http, apiDebug)
           def == r.value
           ws == FileWrites(pullItem, def, now)
           saved == Saved(r.threw, workspaceFolders)
           typeError == saved /\ def.isNull
           caught == r.threw \/ typeError
           outcome == IF caught THEN "failed"
                      ELSE IF ~workspaceFolders THEN "aborted"
                      ELSE "done"
           after == IF saved THEN WriteAll(files, pullItem.name, ws)
                    ELSE files
       IN  /\ lastHttp' = http
           /\ lastResult' = Completion(r)
           /\ channel' = channel \cup r.chan
                 \cup (IF ~r.threw /\ pullItem.debug
                       THEN {Line("definition")} ELSE {})
                 \cup (IF caught THEN {Line("pullError")} ELSE {})
           /\ messages' = messages \cup r.msgs
                 \cup (IF caught THEN {Message("error", "pullFailed")}
                       ELSE {})
                 \cup (IF ~r.threw /\ ~workspaceFolders
                       THEN {Message("error", "noWorkspaceFolder")}
                       ELSE {})
                 \cup (IF saved
                       THEN {ws[k].msg : k \in 2..Len(ws)} ELSE {})
                 \cup (IF saved /\ ~typeError
                       THEN {Message("info", "pulled")} ELSE {})
           /\ pullPc' = outcome
           /\ pulled' = Append(pulled,
                               [item |-> pullItem, definition |-> def,
                                outcome |-> outcome, before |-> files,
                                files |-> after])
           \* the early return skips outputChannel.show()
           /\ shown' = (shown \/ caught \/ saved)
           /\ IF saved
              THEN /\ dirs' = dirs \cup {pullItem.name}
                   /\ files' = after
                   /\ writes' = [k \in 1..Len(ws) |->
                                    <<pullItem.name, ws[k].file>>]
              ELSE UNCHANGED <<dirs, files, writes>>
    /\ UNCHANGED <<selectionVars, envVars, signVars, pageVars, concVars,
                   submitVars, selectVars, treeVars, workspaceFolders, pullItem, nPull,
                   debugEnabled, lastActiveScriptEditorUri, runVars,
                   reports, nPost, nGet, elapsed, lastRequest>>

\* the answers to the request for the definition
PullHttp ==
    FailedHttp \cup {Parsed(TRUE, def) : def \in Definitions}

PullStarted ==
    \E command \in PullCommands, arg \in PullArguments,
       id \in DataSourceIds, item \in TreeItems :
        PullStart(command, arg, id, item)
PullAnswered == \E http \in PullHttp : PullResponse(http)

\* files of an earlier pull: a module directory with a PowerShell script
OldFiles ==
    [path \in {<<"name1", File("collection", ".ps1")>>} |->
        ScriptText("old")]

\* a portal is selected; the workspace folder, if one is open, is empty
\* or holds the files of an earlier pull
InitPull ==
    /\ InitRun
    /\ SignIdle /\ PagesIdle /\ ConcIdle /\ SubmitIdle /\ SelectIdle
    /\ TreeIdle
    /\ credsFile = MatchingCreds
    /\ credentialsPath = "creds.json"
    /\ debugEnabled \in BOOLEAN
    /\ activePortal = "portal1"
    /\ activeCollectorId = NoId
    /\ activeCollectorDescription = Undefined
    /\ activeDeviceId = NoId
    /\ activeDeviceDisplayName = Undefined
    /\ activeDeviceHostname = Undefined
    /\ selectedFrom = NoPortal
    /\ currentPortalDetails = NoPortal
    /\ deviceNode = NoNode
    /\ lastActiveScriptEditorUri = Undefined
    /\ workspaceFolders \in BOOLEAN
    /\ files \in {<<>>, OldFiles}
    /\ dirs = {path[1] : path \in DOMAIN files}
    /\ writes = <<>>
    /\ pullItem = NoPull
    /\ pulled = <<>>

NextPull ==
    \/ PullStarted
    \/ PullAnswered
    \/ Tick

SpecPull == InitPull /\ [][NextPull]_vars

(***************************************************************************)
(* Sequences of pulls: a handler that has returned lets the next command   *)
(* be triggered.                                                           *)
(***************************************************************************)
\* largest number of pulls answered
MaxPulls == 2

\* a definition with both scripts, one with the collection script only
\* and the JSON value null
BothScripts ==
    [isNull |-> FALSE,
     collectorAttribute |->
        [present |-> TRUE, groovyScript |-> "collect",
         scriptType |-> "embed"],
     autoDiscoveryConfig |->
        [present |-> TRUE, hasMethod |-> TRUE, groovyScript |-> "discover",
         type |-> "embed"]]
CollectionOnly == [BothScripts EXCEPT !.autoDiscoveryConfig = NoDiscovery]
RepullHttp ==
    {NetworkError} \cup
    {Parsed(TRUE, def) : def \in {BothScripts, CollectionOnly,
                                  NullDefinition}}

\* the handler has returned
PullReturned ==
    /\ pullPc \in {"done", "failed", "aborted"}
    /\ Len(pulled) < MaxPulls
    /\ pullPc' = "idle"
    /\ UNCHANGED <<selectionVars, envVars, otherVars, debugEnabled,
                   lastActiveScriptEditorUri, runVars, obsVars, nPull>>

RepullStarted ==
    \E command \in PullCommands,
       item \in {PlainItem, [PlainItem EXCEPT !.displayParen = "WMI"]} :
        PullStart(command, "item", 5, item)
RepullAnswered == \E http \in RepullHttp : PullResponse(http)

InitRepull ==
    /\ InitPull
    /\ ~debugEnabled

NextRepull ==
    \/ RepullStarted
    \/ RepullAnswered
    \/ PullReturned
    \/ Tick

SpecRepull == InitRepull /\ [][NextRepull]_vars

(***************************************************************************)
(* setActivePortal and setActiveDevice, split at their awaits: each of the *)
(* six calls of workspaceState.update is awaited, so another command can   *)
(* run between two writes of one command.                                  *)
(***************************************************************************)
\* the values setActivePortal(portalName) writes
PortalArguments(portalName) ==
    SelectionArguments(portalName, NoId, Undefined, NoId, Undefined,
                       Undefined)

\* the k-th call of workspaceState.update of a selection command
StoreKey(k, args) ==
    /\ activePortal' = IF k = 1 THEN args.portalName ELSE activePortal
    /\ activeCollectorId' =
          IF k = 2 THEN args.collectorId ELSE activeCollectorId
    /\ activeCollectorDescription' =
          IF k = 3 THEN args.collectorDescription
          ELSE activeCollectorDescription
    /\ activeDeviceId' = IF k = 4 THEN args.deviceId ELSE activeDeviceId
    /\ activeDeviceDisplayName' =
          IF k = 5 THEN args.deviceDisplayName ELSE activeDeviceDisplayName
    /\ activeDeviceHostname' =
          IF k = 6 THEN args.deviceHostname ELSE activeDeviceHostname

\* a selection command is triggered: it runs up to its first await
SelectBegin(s, command, args, from) ==
    /\ pc = "idle" /\ pullPc = "idle"
    /\ selecting[s] = NoCommand
    /\ StoreKey(1, args)
    /\ selecting' =
          [selecting EXCEPT
              ![s] = [command |-> command, k |-> 1, from |-> from,
                      args |-> args]]
    /\ calls' = calls
          \cup (IF command = "setActiveDevice" THEN {args} ELSE {})
    /\ UNCHANGED <<selectedFrom, envVars, debugEnabled,
                   lastActiveScriptEditorUri, runVars, obsVars, pullVars,
                   signVars, pageVars, concVars, submitVars, fileVars, treeVars>>

\* the awaited update has resolved: the command's next write, or, after
\* the sixth, the refresh of the views and the end of the command
SelectResume(s) ==
    /\ selecting[s] # NoCommand
    /\ LET cmd == selecting[s]
       IN  IF cmd.k < 6
           THEN /\ StoreKey(cmd.k + 1, cmd.args)
                /\ selecting' = [selecting EXCEPT ![s].k = cmd.k + 1]
                /\ selectedFrom' =
                      IF cmd.k + 1 = 4 /\ cmd.command = "setActiveDevice"
                      THEN cmd.from ELSE selectedFrom
           ELSE /\ selecting' = [selecting EXCEPT ![s] = NoCommand]
                /\ UNCHANGED selectionVars
    /\ UNCHANGED <<calls, envVars, debugEnabled, lastActiveScriptEditorUri,
                   runVars, obsVars, pullVars, signVars, pageVars, concVars,
                   submitVars, fileVars, treeVars>>

DeviceSelected ==
    \E s \in Slots, d \in DeviceIds :
        /\ deviceNode # NoNode
        /\ SelectBegin(s, "setActiveDevice", DeviceArguments(deviceNode, d),
                       deviceNode.portal)
PortalSelected ==
    \E s \in Slots, n \in {"portal1", "portal2"} :
        SelectBegin(s, "setActivePortal", PortalArguments(n), NoPortal)
SelectResumed == \E s \in Slots : SelectResume(s)

\* two portals, nothing selected, no tree node expanded
InitSelect ==
    /\ InitRun
    /\ OtherIdle
    /\ credsFile = TwoPortals
    /\ credentialsPath = "creds.json"
    /\ debugEnabled = FALSE
    /\ activePortal = Undefined
    /\ activeCollectorId = NoId
    /\ activeCollectorDescription = Undefined
    /\ activeDeviceId = NoId
    /\ activeDeviceDisplayName = Undefined
    /\ activeDeviceHostname = Undefined
    /\ selectedFrom = NoPortal
    /\ currentPortalDetails = NoPortal
    /\ deviceNode = NoNode
    /\ lastActiveScriptEditorUri = Undefined

NextSelect ==
    \/ ConcExpanded
    \/ CollectorExpanded
    \/ DeviceSelected
    \/ PortalSelected
    \/ SelectResumed

SpecSelect == InitSelect /\ [][NextSelect]_vars

(***************************************************************************)
(* NavigationProvider.getChildren over several portals.  The collector     *)
(* groups and the collectors of a portal are what getCollectorGroups and   *)
(* getCollectors return for it.                                            *)
(***************************************************************************)
\* the inventory of the two portals: group ids, and collectors as
\* <<collectorGroupId, id>>
GroupsOf(portal) ==
    IF portal.COMPANY_NAME = "portal1" THEN {1}
    ELSE IF portal.COMPANY_NAME = "portal2" THEN {2} ELSE {}
CollectorsOf(portal) ==
    IF portal.COMPANY_NAME = "portal1" THEN {<<1, 1>>}
    ELSE IF portal.COMPANY_NAME = "portal2" THEN {<<0, 2>>} ELSE {}
Ungrouped == 0

\* lines 597-608: the collectors by group, and those of no listed group
Grouping(groups, collectors) ==
    StoredData(TRUE, groups,
               {c \in collectors : c[1] # 0 /\ c[1] \in groups},
               {c[2] : c \in {x \in collectors :
                                 ~(x[1] # 0 /\ x[1] \in groups)}})

\* the collectors a group node lists from the stored data
CollectorsInGroup(data, groupId) ==
    IF ~data.present THEN {}
    ELSE IF groupId = Ungrouped THEN data.ungrouped
    ELSE {c[2] : c \in {x \in data.grouped : x[1] = groupId}}

\* getChildren of a portal node 'portal-<label>'
ExpandPortalNode(label) ==
    /\ pc = "idle" /\ pullPc = "idle"
    /\ LET creds == getCredentials(credentialsPath, credsFile)
           found == FindPortal(creds, label)
           data == Grouping(GroupsOf(found), CollectorsOf(found))
       IN  /\ messages' = messages \cup creds.msgs
           /\ IF found # NoPortal
              THEN /\ currentPortalDetails' = found
                   /\ groupedCollectors' = data
                   /\ tree' = tree
                         \cup {TreeNode("group", g, found) : g \in data.groups}
                         \cup (IF data.ungrouped # {}
                               THEN {TreeNode("group", Ungrouped, found)}
                               ELSE {})
              ELSE UNCHANGED <<currentPortalDetails, groupedCollectors, tree>>
    /\ UNCHANGED <<selectionVars, pullVars, signVars, pageVars, concVars,
                   submitVars, fileVars, selectVars, expansion, credsFile,
                   credentialsPath, deviceNode, debugEnabled,
                   lastActiveScriptEditorUri, runVars, channel, shown,
                   reports, nPost, nGet, elapsed, lastRequest, lastHttp,
                   lastResult>>

\* getChildren of a group node 'group-<id>'
ExpandGroupNode(node) ==
    /\ pc = "idle" /\ pullPc = "idle"
    /\ node \in tree /\ node.kind = "group"
    /\ LET listed == CollectorsInGroup(groupedCollectors, node.id)
       IN  /\ tree' = tree
                 \cup {TreeNode("collector", c, node.portal) : c \in listed}
           /\ expansion' =
                 [node |-> node, collectors |-> listed, portal |-> NoPortal]
    /\ UNCHANGED <<selectionVars, envVars, pullVars, signVars, pageVars,
                   concVars, submitVars, fileVars, selectVars,
                   groupedCollectors, debugEnabled,
                   lastActiveScriptEditorUri, runVars, obsVars>>

\* getChildren of a collector node 'collector-<id>'
ExpandCollectorNode(node) ==
    /\ pc = "idle" /\ pullPc = "idle"
    /\ node \in tree /\ node.kind = "collector"
    /\ currentPortalDetails # NoPortal
    /\ deviceNode' = Node(currentPortalDetails, node.id)
    /\ expansion' =
          [node |-> node, collectors |-> {},
           portal |-> currentPortalDetails]
    /\ UNCHANGED <<selectionVars, pullVars, signVars, pageVars, concVars,
                   submitVars, fileVars, selectVars, tree,
                   groupedCollectors, credsFile, credentialsPath,
                   currentPortalDetails, debugEnabled,
                   lastActiveScriptEditorUri, runVars, obsVars>>

TreeNodes ==
    {TreeNode(kind, id, portal) :
        kind \in {"group", "collector"}, id \in {Ungrouped, 1, 2},
        portal \in {e[2] : e \in TwoPortals.entries}}
PortalNodeExpanded == \E label \in PortalNames : ExpandPortalNode(label)
GroupNodeExpanded == \E node \in TreeNodes : ExpandGroupNode(node)
CollectorNodeExpanded == \E node \in TreeNodes : ExpandCollectorNode(node)

NextTree ==
    \/ PortalNodeExpanded
    \/ GroupNodeExpanded
    \/ CollectorNodeExpanded
    \/ DeviceClicked
    \/ PortalSet

SpecTree == InitSelect /\ [][NextTree]_vars

(***************************************************************************)
(* Properties of the script execution protocol.                            *)
(***************************************************************************)
\* a status request has just been answered with a parsable success body
PollAnswered ==
    lastRequest.verb = "GET" /\ lastHttp.kind = "parsed" /\ lastHttp.ok
\* a status request has just failed
PollFailed ==
    lastRequest.verb = "GET" /\ lastHttp.kind # "none"
    /\ (lastHttp.kind # "parsed" \/ ~lastHttp.ok)
\* the submit request has just been answered
SubmitAnswered == lastRequest.verb = "POST" /\ lastHttp.kind # "none"

\* the rules of the classification, stated on the last response
StatusIs(st) == ~lastHttp.body.isNull /\ lastHttp.body.status = st
OutputText ==
    IF ~lastHttp.body.isNull /\ lastHttp.body.output.type = "string"
    THEN lastHttp.body.output.chars ELSE <<>>
OutputContainsCancelled == Includes(OutputText, CANCELLED)
OutputBeginsWithReturns == StartsWith(OutputText, RETURNS)

TerminalMessages ==
    {Message("info", "completed"), Message("error", "cancelledByCollector"),
     Message("error", "outputIndicatesCancellation"),
     Message("info", "completedWithOutput")}
\* the run stopped at pc = p and showed exactly the terminal notification m
EndedWith(p, m) == pc = p /\ messages \cap TerminalMessages = {m}
Terminal == {"completed", "cancelled", "timedOut"}

\* C1: every answered poll is classified by the first rule that matches:
\* status completed, status cancelled, output containing 'cancelled',
\* output beginning with 'returns', otherwise polling goes on
C1_Classification ==
    PollAnswered =>
        IF StatusIs("completed")
        THEN EndedWith("completed", Message("info", "completed"))
        ELSE IF StatusIs("cancelled")
        THEN EndedWith("cancelled", Message("error", "cancelledByCollector"))
        ELSE IF OutputContainsCancelled
        THEN EndedWith("cancelled",
                       Message("error", "outputIndicatesCancellation"))
        ELSE IF OutputBeginsWithReturns
        THEN /\ EndedWith("completed", Message("info", "completedWithOutput"))
             /\ \E l \in channel : l.kind = "scriptOutput"
        ELSE /\ pc \in {"delay", "timedOut"}
             /\ messages \cap TerminalMessages = {}

\* an output that begins with 'returns' and contains 'cancelled' has
\* ended the run as cancelled
C1_Witness ==
    /\ PollAnswered
    /\ ~StatusIs("completed") /\ ~StatusIs("cancelled")
    /\ OutputContainsCancelled /\ OutputBeginsWithReturns
    /\ pc = "cancelled"

\* C2: a run that times out has issued exactly 40 status requests, each
\* after one delay of 3000 ms; no run issues a 41st request, and while the
\* responses are inconclusive the run does not end before the 40th
C2_Timeout ==
    /\ nGet <= 40
    /\ elapsed = 3000 * nGet
    /\ pc = "timedOut" => nGet = 40 /\ i = 40
    /\ pc = "delay" => nGet = i /\ i < 40
    /\ pc = "awaitPoll" => nGet = i + 1

C2_Witness == pc = "timedOut" /\ nGet = 40 /\ elapsed = 120000

\* C3: a failed poll consumes one attempt and neither ends the loop nor
\* raises an exception: attempt i < 40 is followed by attempt i + 1 and
\* the 40th by the time-out; it writes to the output channel only in
\* debug mode
C3_FailedPoll ==
    [][(pc = "awaitPoll" /\ PollFailed')
        => /\ i' = i + 1
           /\ nGet' = nGet
           /\ pc' = (IF i + 1 < 40 THEN "delay" ELSE "timedOut")
           /\ (channel' # channel => pollDebug \/ apiDebug)
           /\ (Line("pollError") \in channel' => pollDebug)]_vars

\* every poll of the session failed and the run timed out, silently
C3_Witness ==
    /\ pc = "timedOut" /\ PollFailed /\ nGet = 40
    /\ messages \cap TerminalMessages = {}
    /\ channel = {}

\* C4 as claimed: a run that exhausts its attempts has shown the
\* time-out warning, whatever the debug flag
C4_Claim == pc = "timedOut" => Message("warning", "timedOut") \in messages

\* C5: the submit request is issued at most once; a submit response
\* without a session identifier is reported as an error and no status
\* request follows it
C5_NoSession ==
    /\ nPost <= 1
    /\ (SubmitAnswered /\ ~lastResult.threw /\ ~lastResult.value.isNull
        /\ lastResult.value.sessionId \notin SessionIds)
          => pc = "errored" /\ Message("error", "noSessionId") \in messages
    /\ (nGet > 0 \/ pc \in {"delay", "awaitPoll"})
          => sessionId \in SessionIds /\ nPost = 1
    /\ pc = "errored" => nGet = 0 /\ sessionId = Undefined

C5_Witness ==
    /\ SubmitAnswered /\ lastHttp.kind = "parsed" /\ lastHttp.ok
    /\ ~lastHttp.body.isNull /\ lastHttp.body.sessionId = Absent
    /\ pc = "errored" /\ nPost = 1 /\ nGet = 0

\* every request the run awaits is eventually answered or fails, and
\* every timer fires
FairSpec ==
    Spec /\ WF_vars(Submitted) /\ WF_vars(PollTimer) /\ WF_vars(Polled)

Ended == Terminal \cup {"errored"}
CompletedMessages ==
    {Message("info", "completed"), Message("info", "completedWithOutput")}
CancelledMessages ==
    {Message("error", "cancelledByCollector"),
     Message("error", "outputIndicatesCancellation")}

\* a step from an ended run keeps the outcome and issues no request
OutcomeKept ==
    pc \in Ended
        => pc' = pc /\ nGet' = nGet /\ nPost' = nPost /\ messages' = messages

\* C6: a submitted invocation ends in exactly one outcome: errored,
\* without a status request, when the submit yields no session, and
\* otherwise one of completed, cancelled and timed-out; an outcome once
\* reached is kept, no request follows it, and no invocation issues more
\* than 40 status requests
C6_Lifecycle ==
    /\ [](nGet <= 40)
    /\ [](pc = "errored" => nGet = 0 /\ sessionId = Undefined)
    /\ [](sessionId # Undefined
            => pc \in {"delay", "awaitPoll"} \cup Terminal)
    /\ [](LET shown_ == messages \cap TerminalMessages
          IN  /\ pc = "completed"
                   => shown_ # {} /\ shown_ \subseteq CompletedMessages
              /\ pc = "cancelled"
                   => shown_ # {} /\ shown_ \subseteq CancelledMessages
              /\ pc \notin {"completed", "cancelled"} => shown_ = {}
              /\ Cardinality(shown_) <= 1)
    /\ [][OutcomeKept]_vars
    /\ (pc = "awaitSubmit" ~> pc \in Ended)

\* a run that polled several times and then completed
C6_Witness == pc = "completed" /\ nGet = 3 /\ sessionId \in SessionIds

\* C8 as claimed: when the run has ended in success, the output channel
\* holds the script output of the terminal response (as the output lines
\* of the 'returns' branch or inside a logged response)
C8_Claim ==
    (pc = "completed" /\ PollAnswered /\ OutputText # <<>>)
        => \E l \in channel : l.kind \in {"scriptOutput", "pollResponse"}

\* C10: a call of makeApiRequest whose response has a non-success status
\* or an unparsable body (or that gets no response) shows an error message
\* and throws; it returns a value, the parsed body, only for a successful
\* and parsable response
C10_ApiFailure ==
    lastHttp.kind # "none" =>
        /\ (lastHttp.kind # "parsed" \/ ~lastHttp.ok)
              => /\ lastResult.threw
                 /\ Message("error", "apiRequestFailed") \in messages
        /\ ~lastResult.threw
              => /\ lastHttp.kind = "parsed" /\ lastHttp.ok
                 /\ lastResult.value = lastHttp.body

\* a response with a non-success status and a parsable body has been
\* turned into an exception
C10_Witness ==
    /\ lastHttp.kind = "parsed" /\ ~lastHttp.ok
    /\ lastResult.threw
    /\ Message("error", "apiRequestFailed") \in messages

(***************************************************************************)
(* Properties of selection and submission.                                 *)
(***************************************************************************)
\* C7 as claimed: with a device selected from the navigation tree, a run
\* finds the credentials of the selected portal and submits the job for
\* the selected device and collector with the credentials the device was
\* listed with
C7_Claim ==
    (selectedFrom # NoPortal /\ credsFile.readable
     /\ \E e \in credsFile.entries : e[2] = selectedFrom)
        => /\ pc = "aborted" => Message("error", "portalNotFound") \notin messages
           /\ lastRequest.verb = "POST"
                 => /\ lastRequest.hostId = activeDeviceId
                    /\ lastRequest.collectorId = activeCollectorId
                    /\ lastRequest.portal = selectedFrom

RunPreconditionMessages ==
    {Message("warning", "noEditor"), Message("warning", "unsupported"),
     Message("error", "noSelection"), Message("error", "portalNotFound")}
PullPreconditionMessages ==
    {Message("error", "noDataSourceId"), Message("error", "noActivePortal"),
     Message("error", "portalNotFound")}
SelectionComplete ==
    /\ TruthyStr(activePortal)
    /\ TruthyNum(activeDeviceId) /\ TruthyNum(activeCollectorId)
\* the credentials file is selected and readable and has an entry
\* labelled with the active portal
CredentialsKnown ==
    /\ TruthyStr(credentialsPath) /\ credsFile.readable
    /\ \E e \in credsFile.entries : e[1] = activePortal

\* C9: a run or a pull that fails a local precondition reports it and
\* issues no request; a request is issued only with a document of a
\* supported type, a complete selection (an active portal, for a pull)
\* and a credential entry for the active portal
C9_Preconditions ==
    /\ pc = "aborted"
          => /\ nPost = 0 /\ nGet = 0 /\ lastRequest = NoRequest
             /\ Cardinality(messages \cap RunPreconditionMessages) = 1
    /\ pullPc = "aborted"
          => /\ nPull = 0 /\ lastRequest = NoRequest
             /\ Cardinality(messages \cap PullPreconditionMessages) = 1
    /\ nPost > 0
          => /\ SelectionComplete /\ CredentialsKnown
             /\ lastRequest.marker \in {"!groovy", "!posh"}
    /\ nPull > 0 => TruthyStr(activePortal) /\ CredentialsKnown
    /\ (pc = "idle" /\ pullPc \in {"idle", "threw"}) => lastRequest = NoRequest

\* a run with a device selected was aborted because the credentials file
\* could not be read
C9_Witness ==
    /\ pc = "aborted" /\ SelectionComplete /\ ~credsFile.readable
    /\ Message("error", "credsUnreadable") \in messages
    /\ Message("error", "portalNotFound") \in messages
    /\ nPost = 0

(***************************************************************************)
(* Properties of request signing.                                          *)
(***************************************************************************)
\* the text after the last colon of an authorization value
LastField(s) ==
    LET colon == CHOOSE k \in 1..Len(s) :
                    s[k] = ":" /\ \A j \in (k + 1)..Len(s) : s[j] # ":"
    IN  SubSeq(s, colon + 1, Len(s))

\* the value of each character of the base64 alphabet
Base64Value ==
    [c \in {Base64Alphabet[a] : a \in 1..64} |->
        (CHOOSE a \in 1..64 : Base64Alphabet[a] = c) - 1]
\* the value of the hexadecimal digit with the given UTF-8 code
HexValue ==
    [c \in {HexCodes[h] : h \in 1..16} |->
        (CHOOSE h \in 1..16 : HexCodes[h] = c) - 1]

\* the bytes a base64 text stands for, or <<>> when it is not base64
Base64Decode(text) ==
    LET n == Len(text)
        groups == n \div 4
        pad == Cardinality({k \in 1..n : text[k] = "="})
        val(k) == IF text[k] = "=" THEN 0 ELSE Base64Value[text[k]]
        quad(g) == val(4 * g - 3) * 262144 + val(4 * g - 2) * 4096
                   + val(4 * g - 1) * 64 + val(4 * g)
    IN  IF n % 4 # 0 \/ pad > 2
           \/ \E k \in 1..n :
                 text[k] # "=" /\ text[k] \notin DOMAIN Base64Value
        THEN <<>>
        ELSE [m \in 1..(3 * groups - pad) |->
                (quad((m - 1) \div 3 + 1)
                    \div <<65536, 256, 1>>[((m - 1) % 3) + 1]) % 256]

\* the bytes whose hexadecimal text has the given UTF-8 codes, or <<>>
\* when the codes are not those of a hexadecimal text
HexDecode(codes) ==
    LET n == Len(codes)
    IN  IF n % 2 # 0 \/ \E k \in 1..n : codes[k] \notin DOMAIN HexValue
        THEN <<>>
        ELSE [m \in 1..(n \div 2) |->
                16 * HexValue[codes[2 * m - 1]] + HexValue[codes[2 * m]]]

\* C11: the string signed for a request is verb + timestamp + body + path
\* with the body exactly the one sent, empty exactly when none is sent,
\* and the timestamp the one placed in the Authorization header
C11_Signed ==
    fetchCall # NoFetch =>
        LET sent == IF fetchCall.hasBody THEN fetchCall.body ELSE <<>>
            timestamp == LastField(fetchCall.authorization)
        IN  /\ signedData = fetchCall.method \o timestamp \o sent
                                \o fetchCall.path
            /\ (sent = <<>>) <=> ~fetchCall.hasBody

\* a submit whose body holds an escaped newline was signed at a
\* two-digit time
C11_Witness ==
    /\ fetchCall.hasBody /\ fetchCall.method = Chars("POST")
    /\ Includes(fetchCall.body, <<"\\", "n">>)
    /\ Includes(signedData, fetchCall.body)
    /\ Len(LastField(fetchCall.authorization)) = 2

\* C12: the header generateLMv1AuthHeader has just returned is
\* 'LMv1 ' + id + ':' + signature + ':' + timestamp, where the signature
\* is the base64 text of the hexadecimal text of the HMAC-SHA256 of
\* verb + timestamp + body + path under the secret; equal arguments have
\* given equal headers
C12_Header ==
    /\ \A h \in {g \in authHeaders : g.header = fetchCall.authorization} :
          LET first == Len(Chars("LMv1 ")) + Len(Chars(h.apiId)) + 2
              last == Len(h.header) - Len(h.epoch) - 1
              signature == SubSeq(h.header, first, last)
              message == h.httpVerb \o h.epoch \o h.data \o h.resourcePath
          IN  /\ h.header = Chars("LMv1 ") \o Chars(h.apiId) \o <<":">>
                              \o signature \o <<":">> \o h.epoch
              /\ Len(signature) = 88
              /\ HexDecode(Base64Decode(signature))
                    = hmacSha256[<<h.apiKey, message>>]
    /\ \A g, h \in authHeaders :
          [g EXCEPT !.header = <<>>] = [h EXCEPT !.header = <<>>]
              => g.header = h.header

\* two headers have been generated, for different messages under the same
\* secret
C12_Witness ==
    \E g, h \in authHeaders :
        /\ g.apiKey = h.apiKey /\ g.httpVerb # h.httpVerb
        /\ g.header # h.header /\ g.data # <<>>

(***************************************************************************)
(* Properties of the paginated fetchers.                                   *)
(***************************************************************************)
\* every response received so far carries an items array
WellFormed == \A k \in 1..Len(pages) : pages[k].kind = "list"
\* the items of the first n pages, in the order received
RECURSIVE PagesItems(_)
PagesItems(n) ==
    IF n = 0 THEN <<>> ELSE PagesItems(n - 1) \o pages[n].items
\* seq holds exactly the items of the first n pages, each once
SameItems(seq, n) ==
    /\ Len(seq) = Len(PagesItems(n))
    /\ {seq[k] : k \in 1..Len(seq)}
          = {PagesItems(n)[k] : k \in 1..Len(PagesItems(n))}

\* C13: request k asks for 1000 items at offset (k - 1) * 1000; when the
\* first N - 1 pages held exactly 1000 items and page N fewer, the fetcher
\* has returned after exactly N requests with exactly the items of the N
\* pages; after a page of 1000 items it asks for the next page
C13_Pagination ==
    /\ \A k \in 1..Len(pageRequests) :
          pageRequests[k] = [offset |-> (k - 1) * 1000, size |-> 1000]
    /\ (fetchPc # "idle" /\ WellFormed) =>
          LET N == Len(pages)
          IN  IF N >= 1 /\ Len(pages[N].items) < 1000
              THEN /\ fetchPc = "returned"
                   /\ Len(pageRequests) = N
                   /\ \A k \in 1..(N - 1) : Len(pages[k].items) = 1000
                   /\ SameItems(fetched, N)
              ELSE /\ fetchPc = "awaitPage"
                   /\ Len(pageRequests) = N + 1

\* a full page followed by a short one: two requests, 1002 items
C13_Witness ==
    /\ fetchPc = "returned" /\ WellFormed
    /\ Len(pages) = 2 /\ Len(pageRequests) = 2
    /\ Len(pages[2].items) = 2 /\ Len(fetched) = 1002

C15_Claim ==
    LET N == Len(pages)
    IN  (/\ N >= 1
         /\ pages[N].kind \in {"null", "noItems", "itemsFalsy", "itemsText",
                               "itemsObject"}
         /\ \A k \in 1..(N - 1) : pages[k].kind = "list")
            => /\ fetchPc = "returned"
               /\ Len(pageRequests) = N
               /\ SameItems(fetched, N - 1)

(***************************************************************************)
(* Properties of overlapping invocations (SpecConc).                       *)
(***************************************************************************)
\* the locals an invocation captures when it submits and keeps to its end
Captured(l) ==
    [portalDetails |-> l.portalDetails, collectorId |-> l.collectorId]

\* one step of two overlapping invocations keeps them apart
C16_Step ==
    \* the event loop turning to the other invocation changes no local
    /\ focus' # focus => parked' = Locals /\ Locals' = parked
    \* a continuation of one invocation leaves the other's locals alone
    /\ focus' = focus => parked' = parked
    \* the portal and the collector are those selected at submission ...
    /\ (focus' = focus /\ pc = "idle" /\ pc' = "awaitSubmit") =>
          /\ portalDetails' =
                FindPortal(getCredentials(credentialsPath, credsFile),
                           activePortal)
          /\ collectorId' = activeCollectorId
          /\ lastRequest'.portal = portalDetails'
          /\ lastRequest'.collectorId = collectorId'
    \* ... and stay so until the invocation ends
    /\ (focus' = focus /\ pc # "idle") => Captured(Locals)' = Captured(Locals)
    \* the session identifier is the one the submit request was answered
    \* with, and is kept
    /\ (focus' = focus /\ pc = "awaitSubmit" /\ pc' = "delay") =>
          sessionId' = lastHttp'.body.sessionId
    /\ (focus' = focus /\ pc # "awaitSubmit") => sessionId' = sessionId
    \* every status request is built from the invocation's own locals
    /\ (focus' = focus /\ pc = "delay" /\ pc' = "awaitPoll") =>
          lastRequest' = StatusRequest(portalDetails, collectorId, sessionId)
    \* a change of the selection changes no local of either invocation
    /\ selectionVars' # selectionVars =>
          /\ Locals' = Locals
          /\ parked' = parked

\* C16: two script runs in flight at once share no run state: each polls
\* with its own session identifier and with the collector and the portal
\* captured when it was submitted, whatever the selection becomes afterwards.
C16_Independent == [][C16_Step]_vars

\* C16 witness: an invocation awaits the answer to a status request built
\* from a collector that is no longer the selected one, while the other
\* invocation polls another session on another collector.
C16_Witness ==
    /\ pc = "awaitPoll"
    /\ lastRequest.collectorId # activeCollectorId
    /\ lastRequest.session = sessionId
    /\ parked.pc \in {"delay", "awaitPoll"}
    /\ parked.sessionId \notin {Undefined, sessionId}
    /\ parked.collectorId # collectorId
(***************************************************************************)
(* Properties of the submit request (SpecSubmit).                          *)
(***************************************************************************)
\* the marker the claim gives a document
MarkerOf(document) ==
    IF document.ext = "groovy" \/ document.languageId = "groovy"
    THEN <<"!", "g", "r", "o", "o", "v", "y">>
    ELSE IF document.ext = "ps1" \/ document.languageId = "powershell"
    THEN <<"!", "p", "o", "s", "h">>
    ELSE <<>>

\* the text between the two given texts in s, which begins with the first
Between(s, before, after) ==
    SubSeq(s, Len(before) + 1, Len(s) - Len(after))

\* a step that reads the selection reads its three parts at once, and a
\* step that submits issues one signed POST built from what was read
C17_Step ==
    /\ submitPc' = "awaitCredentials" /\ submitPc # "awaitCredentials" =>
          /\ snapshot'.activePortalName = activePortal
          /\ snapshot'.activeDeviceId = activeDeviceId
          /\ snapshot'.activeCollectorId = activeCollectorId
          /\ TruthyStr(activePortal)
          /\ TruthyNum(activeDeviceId) /\ TruthyNum(activeCollectorId)
    /\ nSubmit' # nSubmit =>
          LET portal ==
                  FindPortal(getCredentials(credentialsPath, credsFile),
                             snapshot.activePortalName)
              cmdline ==
                  MarkerOf(snapshot.document) \o Chars(" hostId=")
                  \o Decimal(snapshot.activeDeviceId) \o <<NL>>
                  \o snapshot.scriptContent
          IN  /\ nSubmit' = nSubmit + 1
              /\ submitPc = "awaitCredentials" /\ submitPc' = "awaitSubmit"
              /\ MarkerOf(snapshot.document) # <<>>
              /\ fetchCall'.method = <<"P", "O", "S", "T">>
              /\ fetchCall'.path = <<"/", "d", "e", "b", "u", "g">>
              /\ fetchCall'.host = portal.COMPANY_NAME
              /\ queryParams' =
                    <<<<"collectorId", Decimal(snapshot.activeCollectorId)>>>>
              /\ fetchCall'.hasBody
              /\ fetchCall'.body = JSONstringify(Payload(cmdline))
              \* signed: the Authorization header is a header generated
              \* for this verb, path and body with the portal's key
              /\ \E h \in authHeaders' :
                    /\ h.header = fetchCall'.authorization
                    /\ h.httpVerb = fetchCall'.method
                    /\ h.resourcePath = fetchCall'.path
                    /\ h.data = fetchCall'.body
                    /\ h.apiKey = portal.API_ACCESS_KEY
                    /\ h.apiId = portal.API_ACCESS_ID
    /\ nSubmit' = nSubmit => fetchCall' = fetchCall

\* C17: every submit is one signed POST /debug with query collectorId = the
\* collector read from the selection and body cmdline = marker + ' hostId='
\* + device id + newline + script text; portal, device and collector are
\* read in one snapshot; the marker is '!groovy' for a groovy extension or
\* language, otherwise '!posh' for a ps1 extension or powershell language.
C17_Submit == [][C17_Step]_vars

\* C17 witness: a PowerShell script with a quote and a newline in its text
\* has been submitted, and the selection has changed since it was read.
C17_Witness ==
    /\ submitPc = "awaitSubmit"
    /\ snapshot.scriptType = "!posh"
    /\ snapshot.document.ext = "txt"
    /\ Len(snapshot.scriptContent) = 3
    /\ snapshot.activeDeviceId # activeDeviceId
    /\ fetchCall.hasBody
(***************************************************************************)
(* Properties of the return value (SpecParse).                             *)
(***************************************************************************)
\* the output the status request was answered with
ParsedOutput == lastHttp.body.output.chars

\* the first line of the output and the text after its first newline,
\* found by what they are: the output is the line, a newline and the rest
LinesOf(out) ==
    IF \E k \in 1..Len(out) : out[k] = NL
    THEN CHOOSE l \in {<<SubSeq(out, 1, k - 1), SubSeq(out, k + 1, Len(out))>> :
                          k \in 1..Len(out)} :
             /\ out = l[1] \o <<NL>> \o l[2]
             /\ \A k \in 1..Len(l[1]) : l[1][k] # NL
    ELSE <<out, <<>>>>

\* the integers written right after 'returns' and white space on a line:
\* an optional minus sign and the digits up to the first other character
IntegersAfterReturns(line) ==
    UNION {
      {SubSeq(line, a, b) :
        b \in {e \in 9..Len(line) :
                 /\ SubSeq(line, 1, 7) = <<"r", "e", "t", "u", "r", "n", "s">>
                 /\ \A k \in 8..(a - 1) : line[k] \in {" ", "\t", NL, CR}
                 /\ a <= e
                 /\ line[a] \in Digits \cup {"-"}
                 /\ \A k \in (a + 1)..e : line[k] \in Digits
                 /\ line[e] \in Digits
                 /\ (e = Len(line) \/ line[e + 1] \notin Digits)}} :
      a \in 9..Len(line)}

\* what the claim says is reported for an output
ReportedAsClaimed ==
    LET l == LinesOf(ParsedOutput)
        ints == IntegersAfterReturns(l[1])
    IN  /\ pc = "completed"
        /\ Message("info", "completedWithOutput") \in messages
        /\ \E v \in ints \cup {NULLTXT} :
              /\ ints # {} => v \in ints
              /\ channel =
                    {TextLine("returnValue", v),
                     TextLine("scriptOutput",
                              [k \in 1..Len(l[2]) |->
                                  IF l[2][k] = NL THEN CR ELSE l[2][k]])}

BeginsWithReturns ==
    /\ pc # "awaitPoll"
    /\ Len(ParsedOutput) >= 7
    /\ SubSeq(ParsedOutput, 1, 7) = <<"r", "e", "t", "u", "r", "n", "s">>

\* C18 as stated: for every poll output that begins with 'returns' the
\* return code after 'returns' (or null) and the text after the first line,
\* newlines turned into carriage returns, are reported, and the outcome is
\* terminal success.
C18_Claim == BeginsWithReturns => ReportedAsClaimed

\* C18 amended: the same for a poll response whose status is neither
\* 'completed' nor 'cancelled' and whose output begins with 'returns' and
\* does not contain 'cancelled'.
C18_ReturnValue ==
    (/\ BeginsWithReturns
     /\ lastHttp.body.status \notin {"completed", "cancelled"}
     /\ ~Includes(ParsedOutput, CANCELLED))
    => ReportedAsClaimed

\* C18 witness: 'returns -1' followed by three more lines has been
\* reported as -1 with the carriage returns in place of the newlines.
C18_Witness ==
    /\ BeginsWithReturns
    /\ pc = "completed"
    /\ ParsedOutput =
          RETURNS \o <<" ", "-", "1", NL, "x", NL, NL, "y">>
    /\ TextLine("returnValue", <<"-", "1">>) \in channel
    /\ TextLine("scriptOutput", <<"x", CR, CR, "y">>) \in channel
(***************************************************************************)
(* Cancellation (Spec).                                                    *)
(***************************************************************************)
\* one step of a run: which requests it issues and how it gets cancelled
C19_Step ==
    \* the one submit
    /\ nPost' # nPost =>
          /\ nPost = 0 /\ nPost' = 1
          /\ lastRequest'.verb = "POST" /\ lastRequest'.resource = "/debug"
    \* the status requests of the session
    /\ nGet' # nGet =>
          /\ nGet' = nGet + 1
          /\ lastRequest'.verb = "GET"
          /\ lastRequest'.resource = "/debug/<sessionId>"
          /\ lastRequest'.session = sessionId
          /\ sessionId # Undefined
    \* nothing else is requested
    /\ lastRequest' # lastRequest => (nPost' # nPost \/ nGet' # nGet)
    /\ lastRequest'.verb \in {Undefined, "POST", "GET"}
    \* polling is left only by the timer and by the answer to a request
    /\ (pc \in {"delay", "awaitPoll"} /\ pc' # pc) =>
          \/ pc = "delay" /\ pc' = "awaitPoll" /\ nGet' = nGet + 1
          \/ pc = "awaitPoll" /\ lastHttp' # NoHttp /\ lastHttp = NoHttp
    \* the cancelled outcome follows an answer that says so
    /\ (pc' = "cancelled" /\ pc # "cancelled") =>
          /\ pc = "awaitPoll"
          /\ lastRequest'.verb = "GET"
          /\ lastHttp'.kind = "parsed" /\ lastHttp'.ok
          /\ ~lastHttp'.body.isNull
          /\ \/ lastHttp'.body.status = "cancelled"
             \/ /\ lastHttp'.body.output.type = "string"
                /\ Includes(lastHttp'.body.output.chars, CANCELLED)

\* C19: the client never initiates cancellation: a run issues only its one
\* submit POST and status GETs of its session, polling is left only through
\* a poll response or the attempt cap, and the cancelled outcome is reached
\* only after a poll response with status 'cancelled' or with an output that
\* contains the cancellation marker.
C19_NoClientCancel == [][C19_Step]_vars

\* C19 witness: a run ended cancelled on its second status request, whose
\* answer carried the cancellation marker in its output and no status.
C19_Witness ==
    /\ pc = "cancelled"
    /\ nPost = 1 /\ nGet = 2
    /\ PollAnswered
    /\ ~StatusIs("cancelled")
    /\ OutputContainsCancelled
(***************************************************************************)
(* Properties of the pull commands (SpecPull).                             *)
(***************************************************************************)
\* the definition the pull was answered with
PulledDefinition == lastHttp.body

\* the pull has ended without an error, of a definition with a discovery
\* script and a collection script
PulledBothScripts ==
    /\ pullPc = "done"
    /\ PulledDefinition.collectorAttribute.present
    /\ PulledDefinition.collectorAttribute.groovyScript
          \notin {Absent, EmptyString}
    /\ PulledDefinition.autoDiscoveryConfig.present
    /\ PulledDefinition.autoDiscoveryConfig.hasMethod
    /\ PulledDefinition.autoDiscoveryConfig.groovyScript
          \notin {Absent, EmptyString}

\* C20: a pull of a module whose definition has a discovery script and a
\* collection script writes exactly four files into one directory:
\* <name>.json with the definition, manifest.json, discovery.<ext> and
\* collection.<ext> with the script bodies, and no other file.
C20_Claim ==
    PulledBothScripts =>
        \E dir \in dirs, dExt \in {".groovy", ".ps1"},
           cExt \in {".groovy", ".ps1"} :
            LET definition == <<dir, <<pullItem.label.name, ".json">>>>
                manifest == <<dir, <<"manifest", ".json">>>>
                discovery == <<dir, <<"discovery", dExt>>>>
                collection == <<dir, <<"collection", cExt>>>>
                four == {definition, manifest, discovery, collection}
            IN  /\ {writes[k] : k \in 1..Len(writes)} = four
                /\ Cardinality(four) = 4
                /\ Len(writes) = 4
                /\ files[definition] =
                      [type |-> "json", value |-> PulledDefinition]
                /\ files[manifest].type = "json"
                /\ files[manifest].value.moduleType = pullItem.command
                /\ files[discovery] =
                      [type |-> "text",
                       value |->
                          PulledDefinition.autoDiscoveryConfig.groovyScript]
                /\ files[collection] =
                      [type |-> "text",
                       value |->
                          PulledDefinition.collectorAttribute.groovyScript]

\* the extension the declared script type calls for
DeclaredExtension(type) == IF type = "powerShell" THEN ".ps1" ELSE ".groovy"

\* C21: each script file written by a pull gets its extension from the
\* script type the definition declares for that script: .ps1 for
\* PowerShell, .groovy for Groovy or no declared type.
C21_Claim ==
    pullPc = "done" =>
        \A k \in 1..Len(writes) :
            LET file == writes[k][2]
            IN  /\ file[1] = "discovery" =>
                      file[2] = DeclaredExtension(
                                   PulledDefinition.autoDiscoveryConfig.type)
                /\ file[1] = "collection" =>
                      file[2] = DeclaredExtension(
                                   PulledDefinition.collectorAttribute.scriptType)

(***************************************************************************)
(* Properties of sequences of pulls (SpecRepull).                          *)
(***************************************************************************)
\* a file content without the pull date of a manifest
Undated(text) ==
    IF text.type = "json" /\ "pullDate" \in DOMAIN text.value
    THEN [text EXCEPT !.value.pullDate = 0] ELSE text

\* pulls k and k + 1 are of the same module, have got the same definition
\* and have both ended without an error
SamePullTwice(k) ==
    /\ k + 1 <= Len(pulled)
    /\ pulled[k].outcome = "done" /\ pulled[k + 1].outcome = "done"
    /\ pulled[k].item = pulled[k + 1].item
    /\ pulled[k].definition = pulled[k + 1].definition

\* C22: pulling a module twice while its definition is unchanged leaves
\* the same files with the same contents as pulling it once, the pull date
\* of the manifest apart: nothing is added (no backup copy) and nothing is
\* asked of the user.
C22_Idempotent ==
    \A k \in 1..Len(pulled) :
        SamePullTwice(k) =>
            /\ DOMAIN pulled[k + 1].files = DOMAIN pulled[k].files
            /\ \A path \in DOMAIN pulled[k].files :
                  Undated(pulled[k + 1].files[path])
                     = Undated(pulled[k].files[path])
            /\ \A m \in messages : m.level # "warning"

\* C22 witness: a module with both scripts has been pulled twice, at two
\* different times, into a folder that held an older file.
C22_Witness ==
    /\ SamePullTwice(1)
    /\ pulled[1].definition = BothScripts
    /\ pulled[1].before = OldFiles
    /\ pulled[2].files # pulled[1].files

\* the directory a pull has written its files to
ModuleDir(pull) == pull.item.name
\* two pulls are of two distinct modules: of two kinds or of two source ids
DistinctModules(a, b) ==
    a.item.command # b.item.command \/ a.item.id # b.item.id

\* C23: after any sequence of pulls, two distinct modules have never been
\* written to the same directory, so that no file of the one is overwritten
\* by the pull of the other.
C23_Claim ==
    \A j \in 1..Len(pulled), k \in 1..Len(pulled) :
        /\ j < k
        /\ pulled[j].outcome = "done" /\ pulled[k].outcome = "done"
        /\ DistinctModules(pulled[j], pulled[k])
        => /\ ModuleDir(pulled[j]) # ModuleDir(pulled[k])
           /\ \A path \in DOMAIN pulled[j].files :
                 path[1] = ModuleDir(pulled[j])
                 => pulled[k].files[path] = pulled[k].before[path]

\* the portals of the credentials file as getCredentials reads it now
FreshPortals ==
    {e[2] : e \in getCredentials(credentialsPath, credsFile).entries}
\* one step: an operation that sends a signed request, triggered in this
\* step, signs with credentials the file holds at this moment
C24_Step ==
    \* the submission of a script
    /\ (pc = "idle" /\ pc' = "awaitSubmit") => portalDetails' \in FreshPortals
    \* the pull of a module definition
    /\ (pullPc = "idle" /\ pullPc' = "awaitPull")
          => lastRequest'.portal \in FreshPortals
    \* the device list of a collector node
    /\ deviceNode' # deviceNode => deviceNode'.portal \in FreshPortals

\* C24: every operation that sends a signed request takes the access id,
\* the access key and the company name from the credentials file as read
\* when the operation is triggered, never from a copy kept by an earlier
\* operation.
C24_Claim == [][C24_Step]_vars

\* the stored collector and device
StoredSelection ==
    SelectionArguments(activePortal, activeCollectorId,
                       activeCollectorDescription, activeDeviceId,
                       activeDeviceDisplayName, activeDeviceHostname)
\* the collector and the device are cleared
Cleared == StoredSelection = PortalArguments(activePortal)

\* C25: once no selection command is in progress, either the collector and
\* the device are cleared or the six stored values are the arguments of one
\* single call of setActiveDevice, whatever the overlap of the commands at
\* their awaits has been.
C25_Claim == NoneSelecting => (Cleared \/ StoredSelection \in calls)

\* the collectors of a group of a portal
GroupMembers(portal, groupId) ==
    CollectorsInGroup(Grouping(GroupsOf(portal), CollectorsOf(portal)),
                      groupId)

\* C26: a group node lists the collectors of its group in the portal under
\* which the node was listed, and a collector node fetches its devices with
\* the credentials of the portal under which it was listed, whichever
\* portal was expanded last.
C26_Claim ==
    /\ expansion.node.kind = "group"
          => expansion.collectors
                = GroupMembers(expansion.node.portal, expansion.node.id)
    /\ expansion.node.kind = "collector"
          => expansion.portal = expansion.node.portal

\* C27: when a page request fails, the fetcher returns the empty list,
\* whatever the pages before held, issues no further request and returns
\* normally to its caller.
C27_Failure ==
    \A k \in 1..Len(pages) :
        pages[k].kind = "throws" =>
            /\ k = Len(pages) /\ Len(pageRequests) = k
            /\ fetchPc = "returned"
            /\ fetched = <<>>

\* C27 witness: the second page request has failed after a full first page.
C27_Witness ==
    /\ Len(pages) = 2 /\ pages[2].kind = "throws"
    /\ Len(allItems) = size
    /\ fetchPc = "returned" /\ fetched = <<>>

\* one step: a pull whose request has failed, or that finds no workspace
\* folder, changes neither the directories nor the files and shows an error
C28_Step ==
    (/\ pullPc = "awaitPull" /\ pullPc' # "awaitPull"
     /\ (lastResult'.threw \/ ~workspaceFolders))
    => /\ dirs' = dirs /\ files' = files /\ writes' = writes
       /\ pullPc' \in {"failed", "aborted"}
       /\ Message("error", IF lastResult'.threw THEN "pullFailed"
                           ELSE "noWorkspaceFolder") \in messages'

\* C28: if the GET for the definition fails, or no workspace folder is
\* open, the pull creates no directory, writes and overwrites no file, and
\* reports the failure to the user.
C28_FailedPull == [][C28_Step]_vars

\* C28 witness: the request of a pull into a folder that holds the files of
\* an earlier pull has failed.
C28_Witness ==
    /\ pullPc = "failed" /\ lastResult.threw
    /\ workspaceFolders /\ files = OldFiles /\ writes = <<>>
    /\ Message("error", "pullFailed") \in messages

\* one step: no file is deleted, and a file whose content changes is one
\* the pull has written
C29_Step ==
    /\ DOMAIN files \subseteq DOMAIN files'
    /\ \A path \in DOMAIN files :
          files'[path] # files[path]
          => \E k \in 1..Len(writes') : writes'[k] = path

\* C29: a pull only creates or overwrites the files it writes and never
\* deletes a file, so that a script file of an earlier pull stays, with its
\* old content, when the definition of a later pull has no such script.
C29_NeverDeletes == [][C29_Step]_vars

\* C29 witness: after a pull of a module with both scripts and a pull of
\* the same module without discovery script, the directory still holds the
\* discovery script of the first pull.
C29_Witness ==
    /\ Len(pulled) = 2
    /\ pulled[1].outcome = "done" /\ pulled[2].outcome = "done"
    /\ pulled[1].item = pulled[2].item
    /\ pulled[1].definition = BothScripts
    /\ pulled[2].definition = CollectionOnly
    /\ LET path == <<pulled[2].item.name, File("discovery", ".groovy")>>
       IN  /\ path \in DOMAIN files
           /\ files[path] = ScriptText("discover")
           /\ \A k \in 1..Len(writes) : writes[k] # path

\* one step: a pull command triggered with the module record, which is
\* what the command of the module's tree item passes, requests the
\* definition of that module
C30_Step ==
    \A command \in PullCommands, id \in DataSourceIds, item \in TreeItems :
        PullStart(command, "record", id, item)
        => /\ pullPc' = "awaitPull"
           /\ nPull' = nPull + 1
           /\ lastRequest'.verb = "GET" /\ lastRequest'.moduleId = id

\* C30: triggering the own command of a module item of the Modules tree
\* pulls that module: the handler recognises the module record the command
\* passes, resolves the id and the name and issues exactly one GET for
\* the definition.
C30_Claim == [][C30_Step]_vars
====
